---- MODULE Spec2Model ----
(***************************************************************************)
(* VocabMaster: the word store and the mistake tracker of the two copies   *)
(* of the service, src/unnamed/part_000 (streak policy) and src/server.js  *)
(* lines 1-807 (count policy), as request handlers over one shared SQLite  *)
(* handle.  Every db.get / db.run is one atomic step of the store; the     *)
(* callbacks of different requests interleave between those steps.         *)
(***************************************************************************)
EXTENDS Integers, Sequences, FiniteSets, TLC

VARIABLES
  impl,            \* which copy of the service is running
  words,           \* table words: set of rows
  nextWordId,      \* AUTOINCREMENT sequence of words.id
  inTxn,           \* a transaction is open on the shared handle
  txnBase,         \* the tables as they were when that transaction began
  mistakes,        \* table mistakes: set of rows
  nextMistakeId,   \* AUTOINCREMENT sequence of mistakes.id
  passages,        \* table reading_passages: set of rows
  nextPassageId,   \* AUTOINCREMENT sequence of reading_passages.id
  questions,       \* table reading_questions: set of rows
  nextQuestionId,  \* AUTOINCREMENT sequence of reading_questions.id
  testResults,     \* table test_results: set of rows
  nextTestResultId,\* AUTOINCREMENT sequence of test_results.id
  reqs,            \* the requests in flight, one per slot
  log              \* the responses sent so far, in order

vars == <<impl, words, nextWordId, inTxn, txnBase, mistakes, nextMistakeId,
          passages, nextPassageId, questions, nextQuestionId,
          testResults, nextTestResultId, reqs, log>>

wordStore == <<words, nextWordId, inTxn, txnBase>>

mistakeStore == <<mistakes, nextMistakeId>>

readingStore == <<passages, nextPassageId, questions, nextQuestionId>>

resultStore == <<testResults, nextTestResultId>>

----------------------------------------------------------------------------
(* Bounds of the model *)

\* requests answered in one behaviour
MaxLog == 4

\* requests that may be in flight at the same time
Slots == {"r1", "r2"}

\* word ids a client sends; 0 stands for a missing (falsy) word_id
WordIdInputs == {0, 1, 2}

\* mistake row ids a client sends to DELETE /api/mistakes/:id
MistakeIdInputs == {1, 2}

\* english a client sends, as code points: "", "c", "C"
EnglishInputs == {<< >>, <<99>>, <<67>>}

\* chinese a client sends, as code points: "", one character
ChineseInputs == {<< >>, <<20013>>}

\* word ids a client sends to POST /api/words/:id/update-stats
StatsIdInputs == {1, 3}

\* english a client sends to PUT /api/words/:id: "", "B", "b", "c"
PutEnglishInputs == {<< >>, <<66>>, <<98>>, <<99>>}

\* word ids a client sends to the routes that delete words
DeleteIdInputs == {1, 2}

\* items of one POST /api/words/batch body
MaxBatch == 2

\* counts a client asks the quiz generator for
CountInputs == {-1, 0, 1, 2, 3}

\* questions in the text of one POST /api/reading/import
MaxQuestions == 2

----------------------------------------------------------------------------
(* Program constants *)

\* part_000 line 504: if (updatedStreak >= 2)
PromotionThreshold == 2

\* part_000 line 126: words.filter(word => word.familiarity >= 3)
FamiliarThreshold == 3

Impls == {"part_000", "server"}

----------------------------------------------------------------------------
(* Rows and requests *)

NoRow == [id |-> 0, word_id |-> 0, mistake_count |-> 0, correct_streak |-> 0]

Idle == [pc |-> "idle", kind |-> "none", arg |-> 0, row |-> NoRow]

InFlight == {s \in Slots : reqs[s].pc # "idle"}

\* a new request may arrive: the slot is free and the behaviour has room
\* for its response
CanStart(s) ==
  /\ reqs[s].pc = "idle"
  /\ Len(log) + Cardinality(InFlight) < MaxLog

Respond(op, word, status) ==
  log' = Append(log, [op |-> op, word |-> word, status |-> status])

\* SELECT ... FROM mistakes WHERE word_id = ?
MistakesOf(word_id) == {m \in mistakes : m.word_id = word_id}

\* mutant: the SELECT has no WHERE clause
GetRowsNoWhere(word_id) ==
  IF mistakes = {} THEN {NoRow} ELSE mistakes

\* db.get hands the callback one matching row, or undefined when there is
\* none; without ORDER BY which of several rows comes first is not fixed
GetRows(word_id) ==
  IF MistakesOf(word_id) = {} THEN {NoRow} ELSE MistakesOf(word_id)

----------------------------------------------------------------------------
(* Transactions of the shared handle *)

\* what a ROLLBACK restores: every table and every AUTOINCREMENT sequence
Tables ==
  [words |-> words, nextWordId |-> nextWordId,
   mistakes |-> mistakes, nextMistakeId |-> nextMistakeId,
   passages |-> passages, nextPassageId |-> nextPassageId,
   questions |-> questions, nextQuestionId |-> nextQuestionId,
   testResults |-> testResults, nextTestResultId |-> nextTestResultId]

\* db.run('BEGIN TRANSACTION'): opens a transaction; inside an open one the
\* statement fails and the open one goes on
BeginTransaction ==
  /\ inTxn' = TRUE
  /\ txnBase' = IF inTxn THEN txnBase ELSE <<Tables>>

\* a successful COMMIT
CommitTransaction ==
  /\ inTxn' = FALSE
  /\ txnBase' = << >>

----------------------------------------------------------------------------
(* part_000: POST /api/mistakes *)

\* mutant: the table default of mistake_count is 0
NewMistakeCountZero(word_id) ==
  [id |-> nextMistakeId, word_id |-> word_id,
   mistake_count |-> 0, correct_streak |-> 0]

\* INSERT INTO mistakes (word_id) VALUES (?): the table defaults give
\* mistake_count 1 and correct_streak 0
NewMistake(word_id) ==
  [id |-> nextMistakeId, word_id |-> word_id,
   mistake_count |-> 1, correct_streak |-> 0]

\* mutant: the update forgets to reset correct_streak
BumpMistakeKeepStreak(id) ==
  {IF m.id = id
     THEN [m EXCEPT !.mistake_count = m.mistake_count + 1]
     ELSE m : m \in mistakes}

\* UPDATE mistakes SET mistake_count = mistake_count + 1, correct_streak = 0
\* WHERE id = ?
BumpMistake(id) ==
  {IF m.id = id
     THEN [m EXCEPT !.mistake_count = m.mistake_count + 1, !.correct_streak = 0]
     ELSE m : m \in mistakes}

MistakesPost(s, word_id) ==
  /\ impl = "part_000"
  /\ CanStart(s)
  /\ IF word_id = 0
       THEN /\ Respond("wrong", 0, 400)
            /\ UNCHANGED reqs
       ELSE /\ reqs' = [reqs EXCEPT ![s] =
                          [pc |-> "get", kind |-> "wrong", arg |-> word_id, row |-> NoRow]]
            /\ UNCHANGED log
  /\ UNCHANGED <<impl, resultStore, readingStore, wordStore, mistakeStore>>

MistakesPostGet(s) ==
  /\ impl = "part_000"
  /\ reqs[s].pc = "get" /\ reqs[s].kind = "wrong"
  /\ \E row \in GetRows(reqs[s].arg) :
       reqs' = [reqs EXCEPT ![s].pc = "run", ![s].row = row]
  /\ UNCHANGED <<impl, resultStore, readingStore, wordStore, mistakeStore, log>>

\* mutant: the update writes the count from the row that was read
MistakesPostRunFromRead(s) ==
  /\ impl = "part_000"
  /\ reqs[s].pc = "run" /\ reqs[s].kind = "wrong"
  /\ IF reqs[s].row # NoRow
       THEN /\ mistakes' =
                 {IF m.id = reqs[s].row.id
                    THEN [m EXCEPT !.mistake_count = reqs[s].row.mistake_count + 1,
                                   !.correct_streak = 0]
                    ELSE m : m \in mistakes}
            /\ UNCHANGED nextMistakeId
       ELSE /\ mistakes' = mistakes \cup {NewMistake(reqs[s].arg)}
            /\ nextMistakeId' = nextMistakeId + 1
  /\ Respond("wrong", reqs[s].arg, 200)
  /\ reqs' = [reqs EXCEPT ![s] = Idle]
  /\ UNCHANGED <<impl, resultStore, readingStore, wordStore>>

MistakesPostRun(s) ==
  /\ impl = "part_000"
  /\ reqs[s].pc = "run" /\ reqs[s].kind = "wrong"
  /\ IF reqs[s].row # NoRow
       THEN /\ mistakes' = BumpMistake(reqs[s].row.id)
            /\ UNCHANGED nextMistakeId
       ELSE /\ mistakes' = mistakes \cup {NewMistake(reqs[s].arg)}
            /\ nextMistakeId' = nextMistakeId + 1
  /\ Respond("wrong", reqs[s].arg, 200)
  /\ reqs' = [reqs EXCEPT ![s] = Idle]
  /\ UNCHANGED <<impl, resultStore, readingStore, wordStore>>

----------------------------------------------------------------------------
(* part_000: POST /api/mistakes/correct/:wordId *)

\* mutant: the streak is not incremented
UpdatedStreakStale(row) == row.correct_streak

\* const updatedStreak = row.correct_streak + 1
UpdatedStreak(row) == row.correct_streak + 1

\* DELETE FROM mistakes WHERE id = ?
DeleteMistake(id) == {m \in mistakes : m.id # id}

\* mutant: the update has no WHERE clause
SetStreakNoWhere(id, updatedStreak) ==
  {[m EXCEPT !.correct_streak = updatedStreak] : m \in mistakes}

\* UPDATE mistakes SET correct_streak = ? WHERE id = ?
SetStreak(id, updatedStreak) ==
  {IF m.id = id THEN [m EXCEPT !.correct_streak = updatedStreak] ELSE m
     : m \in mistakes}

\* mutant: the row is removed only after the threshold is passed
CorrectWriteAfterThreshold(row) ==
  IF UpdatedStreak(row) > PromotionThreshold
    THEN DeleteMistake(row.id)
    ELSE SetStreak(row.id, UpdatedStreak(row))

\* mutant: the delete is guarded by the streak that was read
CorrectWriteGuarded(row) ==
  IF UpdatedStreak(row) >= PromotionThreshold
    THEN {m \in mistakes :
            m.id # row.id \/ m.correct_streak # row.correct_streak}
    ELSE SetStreak(row.id, UpdatedStreak(row))

\* the write the handler chooses for the row it has read
CorrectWrite(row) ==
  IF UpdatedStreak(row) >= PromotionThreshold
    THEN DeleteMistake(row.id)
    ELSE SetStreak(row.id, UpdatedStreak(row))

MistakesCorrect(s, wordId) ==
  /\ impl = "part_000"
  /\ CanStart(s)
  /\ reqs' = [reqs EXCEPT ![s] =
                [pc |-> "get", kind |-> "correct", arg |-> wordId, row |-> NoRow]]
  /\ UNCHANGED <<impl, resultStore, readingStore, wordStore, mistakeStore, log>>

MistakesCorrectGet(s) ==
  /\ impl = "part_000"
  /\ reqs[s].pc = "get" /\ reqs[s].kind = "correct"
  /\ \E row \in GetRows(reqs[s].arg) :
       IF row = NoRow
         THEN /\ Respond("correct", reqs[s].arg, 404)
              /\ reqs' = [reqs EXCEPT ![s] = Idle]
         ELSE /\ reqs' = [reqs EXCEPT ![s].pc = "run", ![s].row = row]
              /\ UNCHANGED log
  /\ UNCHANGED <<impl, resultStore, readingStore, wordStore, mistakeStore>>

MistakesCorrectRun(s) ==
  /\ impl = "part_000"
  /\ reqs[s].pc = "run" /\ reqs[s].kind = "correct"
  /\ mistakes' = CorrectWrite(reqs[s].row)
  /\ Respond("correct", reqs[s].arg, 200)
  /\ reqs' = [reqs EXCEPT ![s] = Idle]
  /\ UNCHANGED <<impl, resultStore, readingStore, wordStore, nextMistakeId>>

----------------------------------------------------------------------------
(* part_000: DELETE /api/mistakes/:id and DELETE /api/mistakes *)

MistakesDelete(s, id) ==
  /\ impl = "part_000"
  /\ CanStart(s)
  /\ mistakes' = DeleteMistake(id)
  /\ IF mistakes' = mistakes
       THEN Respond("delete", 0, 404)
       ELSE Respond("delete", (CHOOSE m \in mistakes : m.id = id).word_id, 200)
  /\ UNCHANGED <<impl, resultStore, readingStore, wordStore, nextMistakeId, reqs>>

MistakesClear(s) ==
  /\ impl = "part_000"
  /\ CanStart(s)
  /\ mistakes' = {}
  /\ Respond("clear", 0, 200)
  /\ UNCHANGED <<impl, resultStore, readingStore, wordStore, nextMistakeId, reqs>>

----------------------------------------------------------------------------
(* server.js: POST /api/mistakes; mistakes(word_id) carries the unique     *)
(* index idx_mistakes_word_id and the rows have no correct_streak          *)

SrvNoRow == [id |-> 0, word_id |-> 0, mistake_count |-> 0]

SrvIdle == [pc |-> "idle", kind |-> "none", arg |-> 0, row |-> SrvNoRow]

SrvGetRows(word_id) ==
  IF MistakesOf(word_id) = {} THEN {SrvNoRow} ELSE MistakesOf(word_id)

\* INSERT INTO mistakes (word_id, mistake_count) VALUES (?, 1)
SrvNewMistake(word_id) ==
  [id |-> nextMistakeId, word_id |-> word_id, mistake_count |-> 1]

\* CREATE UNIQUE INDEX idx_mistakes_word_id ON mistakes(word_id): an insert
\* of a word_id that has a row fails
SrvUniqueWordId(word_id) == MistakesOf(word_id) = {}

\* UPDATE mistakes SET mistake_count = mistake_count + 1 WHERE word_id = ?
SrvBumpMistake(word_id) ==
  {IF m.word_id = word_id
     THEN [m EXCEPT !.mistake_count = m.mistake_count + 1]
     ELSE m : m \in mistakes}

SrvMistakesPost(s, word_id) ==
  /\ impl = "server"
  /\ CanStart(s)
  /\ IF word_id = 0
       THEN /\ Respond("wrong", 0, 400)
            /\ UNCHANGED reqs
       ELSE /\ reqs' = [reqs EXCEPT ![s] =
                          [pc |-> "get", kind |-> "wrong", arg |-> word_id, row |-> SrvNoRow]]
            /\ UNCHANGED log
  /\ UNCHANGED <<impl, resultStore, readingStore, wordStore, mistakeStore>>

SrvMistakesPostGet(s) ==
  /\ impl = "server"
  /\ reqs[s].pc = "get" /\ reqs[s].kind = "wrong"
  /\ \E row \in SrvGetRows(reqs[s].arg) :
       reqs' = [reqs EXCEPT ![s].pc = "run", ![s].row = row]
  /\ UNCHANGED <<impl, resultStore, readingStore, wordStore, mistakeStore, log>>

SrvMistakesPostRun(s) ==
  /\ impl = "server"
  /\ reqs[s].pc = "run" /\ reqs[s].kind = "wrong"
  /\ IF reqs[s].row # SrvNoRow
       THEN /\ mistakes' = SrvBumpMistake(reqs[s].arg)
            /\ Respond("wrong", reqs[s].arg, 200)
            /\ UNCHANGED nextMistakeId
       ELSE IF SrvUniqueWordId(reqs[s].arg)
         THEN /\ mistakes' = mistakes \cup {SrvNewMistake(reqs[s].arg)}
              /\ nextMistakeId' = nextMistakeId + 1
              /\ Respond("wrong", reqs[s].arg, 201)
         ELSE /\ Respond("wrong", reqs[s].arg, 500)
              /\ UNCHANGED <<mistakes, nextMistakeId>>
  /\ reqs' = [reqs EXCEPT ![s] = SrvIdle]
  /\ UNCHANGED <<impl, resultStore, readingStore, wordStore>>

----------------------------------------------------------------------------
(* server.js: POST /api/mistakes/correct/:wordId (count policy) *)

\* mutant: the count is written back as it was read
NewCountKept(row) == row.mistake_count

\* const newCount = row.mistake_count - 1
NewCount(row) == row.mistake_count - 1

\* DELETE FROM mistakes WHERE word_id = ?
SrvDeleteMistakesOf(wordId) == {m \in mistakes : m.word_id # wordId}

\* UPDATE mistakes SET mistake_count = ? WHERE word_id = ?
SrvSetCount(wordId, newCount) ==
  {IF m.word_id = wordId THEN [m EXCEPT !.mistake_count = newCount] ELSE m
     : m \in mistakes}

SrvCorrectWrite(wordId, row) ==
  IF NewCount(row) <= 0
    THEN SrvDeleteMistakesOf(wordId)
    ELSE SrvSetCount(wordId, NewCount(row))

SrvMistakesCorrect(s, wordId) ==
  /\ impl = "server"
  /\ CanStart(s)
  /\ reqs' = [reqs EXCEPT ![s] =
                [pc |-> "get", kind |-> "correct", arg |-> wordId, row |-> SrvNoRow]]
  /\ UNCHANGED <<impl, resultStore, readingStore, wordStore, mistakeStore, log>>

SrvMistakesCorrectGet(s) ==
  /\ impl = "server"
  /\ reqs[s].pc = "get" /\ reqs[s].kind = "correct"
  /\ \E row \in SrvGetRows(reqs[s].arg) :
       IF row = SrvNoRow
         THEN /\ Respond("correct", reqs[s].arg, 404)
              /\ reqs' = [reqs EXCEPT ![s] = SrvIdle]
         ELSE /\ reqs' = [reqs EXCEPT ![s].pc = "run", ![s].row = row]
              /\ UNCHANGED log
  /\ UNCHANGED <<impl, resultStore, readingStore, wordStore, mistakeStore>>

SrvMistakesCorrectRun(s) ==
  /\ impl = "server"
  /\ reqs[s].pc = "run" /\ reqs[s].kind = "correct"
  /\ mistakes' = SrvCorrectWrite(reqs[s].arg, reqs[s].row)
  /\ Respond("correct", reqs[s].arg, 200)
  /\ reqs' = [reqs EXCEPT ![s] = SrvIdle]
  /\ UNCHANGED <<impl, resultStore, readingStore, wordStore, nextMistakeId>>

----------------------------------------------------------------------------
(* server.js: DELETE /api/mistakes/:id and DELETE /api/mistakes *)

SrvMistakesDelete(s, id) ==
  /\ impl = "server"
  /\ CanStart(s)
  /\ mistakes' = DeleteMistake(id)
  /\ IF mistakes' = mistakes
       THEN Respond("delete", 0, 200)
       ELSE Respond("delete", (CHOOSE m \in mistakes : m.id = id).word_id, 200)
  /\ UNCHANGED <<impl, resultStore, readingStore, wordStore, nextMistakeId, reqs>>

SrvMistakesClear(s) ==
  /\ impl = "server"
  /\ CanStart(s)
  /\ mistakes' = {}
  /\ Respond("clear", 0, 200)
  /\ UNCHANGED <<impl, resultStore, readingStore, wordStore, nextMistakeId, reqs>>

----------------------------------------------------------------------------
(* The words table *)

\* SQLite LOWER(): folds the ASCII letters A-Z
Lower(str) == [i \in DOMAIN str |-> IF str[i] \in 65..90 THEN str[i] + 32 ELSE str[i]]

\* SELECT * FROM words WHERE LOWER(english) = LOWER(?)
WordsLike(english) == {w \in words : Lower(w.english) = Lower(english)}

\* english TEXT NOT NULL UNIQUE: the column's unique index compares the
\* text as it is (BINARY collation)
UniqueEnglish(english) == \A w \in words : w.english # english

\* INSERT INTO words (english, chinese, example) VALUES (?, ?, ?): the table
\* defaults give familiarity 0 and exposure 0
NewWord(id, english, chinese) ==
  [id |-> id, english |-> english, chinese |-> chinese,
   familiarity |-> 0, exposure |-> 0]

----------------------------------------------------------------------------
(* part_000: POST /api/words *)

WordsPost(s, english, chinese) ==
  /\ impl = "part_000"
  /\ CanStart(s)
  /\ IF english = << >> \/ chinese = << >>
       THEN /\ Respond("add", 0, 400)
            /\ UNCHANGED reqs
       ELSE /\ reqs' = [reqs EXCEPT ![s] =
                          [pc |-> "get", kind |-> "add",
                           arg |-> [english |-> english, chinese |-> chinese],
                           row |-> NoRow]]
            /\ UNCHANGED log
  /\ UNCHANGED <<impl, resultStore, readingStore, wordStore, mistakeStore>>

WordsPostGet(s) ==
  /\ impl = "part_000"
  /\ reqs[s].pc = "get" /\ reqs[s].kind = "add"
  /\ IF WordsLike(reqs[s].arg.english) # {}
       THEN /\ Respond("add", 0, 409)
            /\ reqs' = [reqs EXCEPT ![s] = Idle]
       ELSE /\ reqs' = [reqs EXCEPT ![s].pc = "run"]
            /\ UNCHANGED log
  /\ UNCHANGED <<impl, resultStore, readingStore, wordStore, mistakeStore>>

WordsPostRun(s) ==
  /\ impl = "part_000"
  /\ reqs[s].pc = "run" /\ reqs[s].kind = "add"
  /\ IF UniqueEnglish(reqs[s].arg.english)
       THEN /\ words' = words \cup
                 {NewWord(nextWordId, reqs[s].arg.english, reqs[s].arg.chinese)}
            /\ nextWordId' = nextWordId + 1
            /\ Respond("add", nextWordId, 200)
       ELSE /\ Respond("add", 0, 500)
            /\ UNCHANGED <<words, nextWordId>>
  /\ reqs' = [reqs EXCEPT ![s] = Idle]
  /\ UNCHANGED <<impl, resultStore, readingStore, inTxn, txnBase, mistakeStore>>

----------------------------------------------------------------------------
(* part_000: POST /api/words/:id/update-stats *)

\* mutant: the update has no WHERE clause
BumpExposureNoWhere(wordId) ==
  {[w EXCEPT !.exposure = w.exposure + 1] : w \in words}

\* mutant: the exposure update changes nothing
BumpExposureNothing(wordId) == words

\* UPDATE words SET exposure = exposure + 1 WHERE id = ?
BumpExposure(wordId) ==
  {IF w.id = wordId THEN [w EXCEPT !.exposure = w.exposure + 1] ELSE w
     : w \in words}

\* if (isCorrect) UPDATE words SET familiarity = familiarity + 1 WHERE id = ?
BumpFamiliarity(wordId) ==
  {IF w.id = wordId THEN [w EXCEPT !.familiarity = w.familiarity + 1] ELSE w
     : w \in words}

\* the handler queues BEGIN TRANSACTION and the exposure update; the slot
\* keeps the words as the request found them
WordsUpdateStats(s, wordId, isCorrect) ==
  /\ impl = "part_000"
  /\ CanStart(s)
  /\ BeginTransaction
  /\ reqs' = [reqs EXCEPT ![s] =
                [pc |-> "exposure", kind |-> "stats",
                 arg |-> [id |-> wordId, isCorrect |-> isCorrect],
                 row |-> words]]
  /\ UNCHANGED <<impl, resultStore, readingStore, words, nextWordId, mistakeStore, log>>

\* the exposure update and its callback: with isCorrect false the callback
\* queues COMMIT and answers
WordsUpdateStatsExposure(s) ==
  /\ impl = "part_000"
  /\ reqs[s].pc = "exposure" /\ reqs[s].kind = "stats"
  /\ words' = BumpExposure(reqs[s].arg.id)
  /\ IF reqs[s].arg.isCorrect
       THEN /\ reqs' = [reqs EXCEPT ![s].pc = "familiarity"]
            /\ UNCHANGED log
       ELSE /\ reqs' = [reqs EXCEPT ![s].pc = "commit"]
            /\ Respond("stats", reqs[s].arg.id, 200)
  /\ UNCHANGED <<impl, resultStore, readingStore, nextWordId, inTxn, txnBase, mistakeStore>>

\* the familiarity update and its callback, which queues COMMIT and answers
WordsUpdateStatsFamiliarity(s) ==
  /\ impl = "part_000"
  /\ reqs[s].pc = "familiarity" /\ reqs[s].kind = "stats"
  /\ words' = BumpFamiliarity(reqs[s].arg.id)
  /\ reqs' = [reqs EXCEPT ![s].pc = "commit"]
  /\ Respond("stats", reqs[s].arg.id, 200)
  /\ UNCHANGED <<impl, resultStore, readingStore, nextWordId, inTxn, txnBase, mistakeStore>>

\* COMMIT
WordsUpdateStatsCommit(s) ==
  /\ impl = "part_000"
  /\ reqs[s].pc = "commit" /\ reqs[s].kind = "stats"
  /\ CommitTransaction
  /\ reqs' = [reqs EXCEPT ![s] = Idle]
  /\ UNCHANGED <<impl, resultStore, readingStore, words, nextWordId, mistakeStore, log>>

----------------------------------------------------------------------------
(* server.js: POST /api/words *)

SrvWordsPost(s, english, chinese) ==
  /\ impl = "server"
  /\ CanStart(s)
  /\ IF english = << >> \/ chinese = << >>
       THEN /\ Respond("add", 0, 400)
            /\ UNCHANGED reqs
       ELSE /\ reqs' = [reqs EXCEPT ![s] =
                          [pc |-> "run", kind |-> "add",
                           arg |-> [english |-> english, chinese |-> chinese],
                           row |-> SrvNoRow]]
            /\ UNCHANGED log
  /\ UNCHANGED <<impl, resultStore, readingStore, wordStore, mistakeStore>>

\* the insert; its only duplicate check is the UNIQUE constraint of
\* words.english, answered with 409
SrvWordsPostRun(s) ==
  /\ impl = "server"
  /\ reqs[s].pc = "run" /\ reqs[s].kind = "add"
  /\ IF UniqueEnglish(reqs[s].arg.english)
       THEN /\ words' = words \cup
                 {NewWord(nextWordId, reqs[s].arg.english, reqs[s].arg.chinese)}
            /\ nextWordId' = nextWordId + 1
            /\ Respond("add", nextWordId, 201)
       ELSE /\ Respond("add", 0, 409)
            /\ UNCHANGED <<words, nextWordId>>
  /\ reqs' = [reqs EXCEPT ![s] = SrvIdle]
  /\ UNCHANGED <<impl, resultStore, readingStore, inTxn, txnBase, mistakeStore>>

----------------------------------------------------------------------------
(* server.js: POST /api/words/:id/update-stats *)

\* const familiarityChange = isCorrect ? 1 : -1
FamiliarityChange(isCorrect) == IF isCorrect THEN 1 ELSE -1

\* UPDATE words SET exposure = exposure + 1, familiarity = familiarity + ?
\* WHERE id = ?
SrvBumpStats(id, familiarityChange) ==
  {IF w.id = id
     THEN [w EXCEPT !.exposure = w.exposure + 1,
                    !.familiarity = w.familiarity + familiarityChange]
     ELSE w : w \in words}

SrvWordsUpdateStats(s, id, isCorrect) ==
  /\ impl = "server"
  /\ CanStart(s)
  /\ reqs' = [reqs EXCEPT ![s] =
                [pc |-> "run", kind |-> "stats",
                 arg |-> [id |-> id, isCorrect |-> isCorrect],
                 row |-> words]]
  /\ UNCHANGED <<impl, resultStore, readingStore, wordStore, mistakeStore, log>>

SrvWordsUpdateStatsRun(s) ==
  /\ impl = "server"
  /\ reqs[s].pc = "run" /\ reqs[s].kind = "stats"
  /\ words' = SrvBumpStats(reqs[s].arg.id, FamiliarityChange(reqs[s].arg.isCorrect))
  /\ IF words' = words
       THEN Respond("stats", reqs[s].arg.id, 404)
       ELSE Respond("stats", reqs[s].arg.id, 200)
  /\ reqs' = [reqs EXCEPT ![s] = SrvIdle]
  /\ UNCHANGED <<impl, resultStore, readingStore, nextWordId, inTxn, txnBase, mistakeStore>>

----------------------------------------------------------------------------
(* part_000: PUT /api/words/:id *)

\* UPDATE words SET english = ?, chinese = ?, example = ? WHERE id = ?
SetWord(id, english, chinese) ==
  {IF w.id = id THEN [w EXCEPT !.english = english, !.chinese = chinese] ELSE w
     : w \in words}

\* the UPDATE breaks the UNIQUE constraint of words.english: the row to
\* change is stored and another row holds the same text
UpdateNotUnique(id, english) ==
  /\ \E w \in words : w.id = id
  /\ \E w \in words : w.id # id /\ w.english = english

WordsPut(s, id, english, chinese) ==
  /\ impl = "part_000"
  /\ CanStart(s)
  /\ IF english = << >> \/ chinese = << >>
       THEN /\ Respond("put", 0, 400)
            /\ UNCHANGED reqs
       ELSE /\ reqs' = [reqs EXCEPT ![s] =
                          [pc |-> "run", kind |-> "put",
                           arg |-> [id |-> id, english |-> english,
                                    chinese |-> chinese],
                           row |-> NoRow]]
            /\ UNCHANGED log
  /\ UNCHANGED <<impl, resultStore, readingStore, wordStore, mistakeStore>>

\* the UPDATE and its callback: a constraint error answers 500, no changed
\* row answers 404
WordsPutRun(s) ==
  /\ impl = "part_000"
  /\ reqs[s].pc = "run" /\ reqs[s].kind = "put"
  /\ LET a == reqs[s].arg
     IN IF UpdateNotUnique(a.id, a.english)
          THEN /\ Respond("put", a.id, 500)
               /\ UNCHANGED words
          ELSE /\ words' = SetWord(a.id, a.english, a.chinese)
               /\ IF \E w \in words : w.id = a.id
                    THEN Respond("put", a.id, 200)
                    ELSE Respond("put", a.id, 404)
  /\ reqs' = [reqs EXCEPT ![s] = Idle]
  /\ UNCHANGED <<impl, resultStore, readingStore, nextWordId, inTxn, txnBase, mistakeStore>>

----------------------------------------------------------------------------
(* server.js: PUT /api/words/:id *)

\* SELECT id FROM words WHERE english = ? AND id != ?
WordsSpelled(english, id) == {w \in words : w.english = english /\ w.id # id}

SrvWordsPut(s, id, english, chinese) ==
  /\ impl = "server"
  /\ CanStart(s)
  /\ IF english = << >> \/ chinese = << >>
       THEN /\ Respond("put", 0, 400)
            /\ UNCHANGED reqs
       ELSE /\ reqs' = [reqs EXCEPT ![s] =
                          [pc |-> "get", kind |-> "put",
                           arg |-> [id |-> id, english |-> english,
                                    chinese |-> chinese],
                           row |-> SrvNoRow]]
            /\ UNCHANGED log
  /\ UNCHANGED <<impl, resultStore, readingStore, wordStore, mistakeStore>>

SrvWordsPutGet(s) ==
  /\ impl = "server"
  /\ reqs[s].pc = "get" /\ reqs[s].kind = "put"
  /\ IF WordsSpelled(reqs[s].arg.english, reqs[s].arg.id) # {}
       THEN /\ Respond("put", reqs[s].arg.id, 409)
            /\ reqs' = [reqs EXCEPT ![s] = SrvIdle]
       ELSE /\ reqs' = [reqs EXCEPT ![s].pc = "run"]
            /\ UNCHANGED log
  /\ UNCHANGED <<impl, resultStore, readingStore, wordStore, mistakeStore>>

SrvWordsPutRun(s) ==
  /\ impl = "server"
  /\ reqs[s].pc = "run" /\ reqs[s].kind = "put"
  /\ LET a == reqs[s].arg
     IN IF UpdateNotUnique(a.id, a.english)
          THEN /\ Respond("put", a.id, 500)
               /\ UNCHANGED words
          ELSE /\ words' = SetWord(a.id, a.english, a.chinese)
               /\ IF \E w \in words : w.id = a.id
                    THEN Respond("put", a.id, 200)
                    ELSE Respond("put", a.id, 404)
  /\ reqs' = [reqs EXCEPT ![s] = SrvIdle]
  /\ UNCHANGED <<impl, resultStore, readingStore, nextWordId, inTxn, txnBase, mistakeStore>>

----------------------------------------------------------------------------
(* Deleting words *)

\* the handle is opened without PRAGMA foreign_keys = ON, and SQLite
\* enforces REFERENCES ... ON DELETE CASCADE only under that pragma
ForeignKeys == FALSE

\* the mistakes table after the words with these ids were deleted
MistakesAfterDelete(ids) ==
  IF ForeignKeys THEN {m \in mistakes : m.word_id \notin ids} ELSE mistakes

\* DELETE FROM words WHERE id IN (...)
DeleteWords(ids) == {w \in words : w.id \notin ids}

\* part_000: DELETE /api/words/:id
WordsDelete(s, id) ==
  /\ impl = "part_000"
  /\ CanStart(s)
  /\ words' = DeleteWords({id})
  /\ mistakes' = MistakesAfterDelete({id})
  /\ IF words' = words
       THEN Respond("delword", id, 404)
       ELSE Respond("delword", id, 200)
  /\ UNCHANGED <<impl, resultStore, readingStore, nextWordId, inTxn, txnBase,
                 nextMistakeId, reqs>>

\* part_000: DELETE /api/words/batch/:ids
WordsDeleteBatch(s, idArray) ==
  /\ impl = "part_000"
  /\ CanStart(s)
  /\ IF idArray = {}
       THEN /\ Respond("delwords", 0, 400)
            /\ UNCHANGED <<words, mistakes>>
       ELSE /\ words' = DeleteWords(idArray)
            /\ mistakes' = MistakesAfterDelete(idArray)
            /\ Respond("delwords", Cardinality(words) - Cardinality(words'), 200)
  /\ UNCHANGED <<impl, resultStore, readingStore, nextWordId, inTxn, txnBase,
                 nextMistakeId, reqs>>

\* part_000: DELETE /api/words
WordsClear(s) ==
  /\ impl = "part_000"
  /\ CanStart(s)
  /\ words' = {}
  /\ mistakes' = MistakesAfterDelete({w.id : w \in words})
  /\ Respond("clearwords", 0, 200)
  /\ UNCHANGED <<impl, resultStore, readingStore, nextWordId, inTxn, txnBase,
                 nextMistakeId, reqs>>

\* server.js: DELETE /api/words/:id
SrvWordsDelete(s, id) ==
  /\ impl = "server"
  /\ CanStart(s)
  /\ words' = DeleteWords({id})
  /\ mistakes' = MistakesAfterDelete({id})
  /\ IF words' = words
       THEN Respond("delword", id, 404)
       ELSE Respond("delword", id, 200)
  /\ UNCHANGED <<impl, resultStore, readingStore, nextWordId, inTxn, txnBase,
                 nextMistakeId, reqs>>

\* server.js: POST /api/words/batch-delete
SrvWordsBatchDelete(s, ids) ==
  /\ impl = "server"
  /\ CanStart(s)
  /\ IF ids = {}
       THEN /\ Respond("delwords", 0, 400)
            /\ UNCHANGED <<words, mistakes>>
       ELSE /\ words' = DeleteWords(ids)
            /\ mistakes' = MistakesAfterDelete(ids)
            /\ Respond("delwords", Cardinality(words) - Cardinality(words'), 200)
  /\ UNCHANGED <<impl, resultStore, readingStore, nextWordId, inTxn, txnBase,
                 nextMistakeId, reqs>>

\* server.js: DELETE /api/words
SrvWordsClear(s) ==
  /\ impl = "server"
  /\ CanStart(s)
  /\ words' = {}
  /\ mistakes' = MistakesAfterDelete({w.id : w \in words})
  /\ Respond("clearwords", 0, 200)
  /\ UNCHANGED <<impl, resultStore, readingStore, nextWordId, inTxn, txnBase,
                 nextMistakeId, reqs>>

----------------------------------------------------------------------------
(* part_000: POST /api/words/batch *)

\* an element of the request body; null stands for a JSON null
BatchItem(null, english, chinese) ==
  [null |-> null, english |-> english, chinese |-> chinese]

\* if (!english || !chinese)
InvalidItem(item) == item.english = << >> \/ item.chinese = << >>

\* the positions of the items whose existence check is queued, in order
CheckedPositions(items) ==
  SelectSeq([i \in 1..Len(items) |-> i],
            LAMBDA i : ~items[i].null /\ ~InvalidItem(items[i]))

\* the positions of the items put on the error list at once, in order
RefusedPositions(items) ==
  SelectSeq([i \in 1..Len(items) |-> i],
            LAMBDA i : ~items[i].null /\ InvalidItem(items[i]))

\* const results = { success: [], error: [], duplicate: [] }
NoResults == [success |-> << >>, error |-> << >>, duplicate |-> << >>]

\* mutant: the ROLLBACK restores nothing
RolledBackNothing == Tables

\* the tables a ROLLBACK leaves: those of the moment the transaction began
RolledBack == IF inTxn THEN txnBase[1] ELSE Tables

\* db.run('ROLLBACK')
Rollback ==
  /\ words' = RolledBack.words
  /\ nextWordId' = RolledBack.nextWordId
  /\ mistakes' = RolledBack.mistakes
  /\ nextMistakeId' = RolledBack.nextMistakeId
  /\ passages' = RolledBack.passages
  /\ nextPassageId' = RolledBack.nextPassageId
  /\ questions' = RolledBack.questions
  /\ nextQuestionId' = RolledBack.nextQuestionId
  /\ testResults' = RolledBack.testResults
  /\ nextTestResultId' = RolledBack.nextTestResultId
  /\ inTxn' = FALSE
  /\ txnBase' = << >>

\* where a batch request stands once the item at hand is done: COMMIT is
\* queued when every promise has resolved; a promise that rejected leaves
\* Promise.all rejected, and then nothing is queued and nothing is answered
BatchPc(row) ==
  IF row.gets # << >> \/ row.toInsert # {} THEN "items"
  ELSE IF row.rejected THEN "rejected" ELSE "commit"

\* the handler up to the end of db.serialize: BEGIN TRANSACTION is queued,
\* and every item's promise is started: destructuring a null item throws,
\* which rejects its promise; an item without english or chinese is put on
\* the error list; every other item has its existence check queued
WordsBatch(s, isArray, items) ==
  /\ impl = "part_000"
  /\ reqs[s].pc = "idle" /\ InFlight = {} /\ log = << >>
  /\ IF ~isArray
       THEN /\ Respond("batch", 0, 400)
            /\ UNCHANGED <<reqs, inTxn, txnBase>>
       ELSE LET row ==
                  [gets |-> CheckedPositions(items),
                   toInsert |-> {},
                   rejected |-> \E i \in DOMAIN items : items[i].null,
                   results |->
                     [NoResults EXCEPT !.error =
                        [k \in DOMAIN RefusedPositions(items)
                           |-> [index |-> RefusedPositions(items)[k] - 1]]]]
            IN /\ reqs' = [reqs EXCEPT ![s] =
                             [pc |-> BatchPc(row), kind |-> "batch",
                              arg |-> items, row |-> row]]
               /\ BeginTransaction
               /\ UNCHANGED log
  /\ UNCHANGED <<impl, resultStore, readingStore, words, nextWordId, mistakeStore>>

\* the existence check of the next item in line and its callback: a row
\* puts the item on the duplicate list, no row issues the insert
WordsBatchGet(s) ==
  /\ impl = "part_000"
  /\ reqs[s].pc = "items" /\ reqs[s].kind = "batch"
  /\ reqs[s].row.gets # << >>
  /\ LET row == reqs[s].row
         i == Head(row.gets)
         next == IF WordsLike(reqs[s].arg[i].english) # {}
                   THEN [row EXCEPT !.gets = Tail(row.gets),
                                    !.results.duplicate =
                                       Append(@, [index |-> i - 1])]
                   ELSE [row EXCEPT !.gets = Tail(row.gets),
                                    !.toInsert = @ \cup {i}]
     IN reqs' = [reqs EXCEPT ![s].row = next, ![s].pc = BatchPc(next)]
  /\ UNCHANGED <<impl, resultStore, readingStore, wordStore, mistakeStore, log>>

\* an issued insert and its callback; the insert was issued outside
\* db.serialize, so it is not ordered with the checks still in line
WordsBatchRun(s, i) ==
  /\ impl = "part_000"
  /\ reqs[s].pc = "items" /\ reqs[s].kind = "batch"
  /\ i \in reqs[s].row.toInsert
  /\ LET row == reqs[s].row
         item == reqs[s].arg[i]
         next == IF UniqueEnglish(item.english)
                   THEN [row EXCEPT !.toInsert = @ \ {i},
                                    !.results.success =
                                       Append(@, [id |-> nextWordId,
                                                  english |-> item.english,
                                                  chinese |-> item.chinese])]
                   ELSE [row EXCEPT !.toInsert = @ \ {i},
                                    !.results.error =
                                       Append(@, [index |-> i - 1])]
     IN /\ reqs' = [reqs EXCEPT ![s].row = next, ![s].pc = BatchPc(next)]
        /\ IF UniqueEnglish(item.english)
             THEN /\ words' = words \cup
                       {NewWord(nextWordId, item.english, item.chinese)}
                  /\ nextWordId' = nextWordId + 1
             ELSE UNCHANGED <<words, nextWordId>>
  /\ UNCHANGED <<impl, resultStore, readingStore, inTxn, txnBase, mistakeStore, log>>

\* COMMIT and its callback: the engine may fail the statement; then the
\* callback queues ROLLBACK and answers 500 with the results so far
WordsBatchCommit(s, err) ==
  /\ impl = "part_000"
  /\ reqs[s].pc = "commit" /\ reqs[s].kind = "batch"
  /\ IF err
       THEN /\ reqs' = [reqs EXCEPT ![s].pc = "rollback"]
            /\ log' = Append(log, [op |-> "batch", word |-> 0, status |-> 500,
                                   body |-> reqs[s].row.results])
            /\ UNCHANGED <<inTxn, txnBase>>
       ELSE /\ reqs' = [reqs EXCEPT ![s] = Idle]
            /\ log' = Append(log, [op |-> "batch", word |-> 0, status |-> 200,
                                   body |-> reqs[s].row.results])
            /\ CommitTransaction
  /\ UNCHANGED <<impl, resultStore, readingStore, words, nextWordId, mistakeStore>>

\* the queued ROLLBACK
WordsBatchRollback(s) ==
  /\ impl = "part_000"
  /\ reqs[s].pc = "rollback" /\ reqs[s].kind = "batch"
  /\ Rollback
  /\ reqs' = [reqs EXCEPT ![s] = Idle]
  /\ UNCHANGED <<impl, log>>

----------------------------------------------------------------------------
(* part_000: POST /api/words/:id/update-stats, storage errors *)

\* the exposure update fails in the engine: its callback queues ROLLBACK
\* and answers 500
WordsUpdateStatsExposureError(s) ==
  /\ impl = "part_000"
  /\ reqs[s].pc = "exposure" /\ reqs[s].kind = "stats"
  /\ reqs' = [reqs EXCEPT ![s].pc = "rollback"]
  /\ Respond("stats", reqs[s].arg.id, 500)
  /\ UNCHANGED <<impl, resultStore, readingStore, wordStore, mistakeStore>>

\* the familiarity update fails in the engine: its callback queues
\* ROLLBACK and answers 500
WordsUpdateStatsFamiliarityError(s) ==
  /\ impl = "part_000"
  /\ reqs[s].pc = "familiarity" /\ reqs[s].kind = "stats"
  /\ reqs' = [reqs EXCEPT ![s].pc = "rollback"]
  /\ Respond("stats", reqs[s].arg.id, 500)
  /\ UNCHANGED <<impl, resultStore, readingStore, wordStore, mistakeStore>>

\* the queued ROLLBACK
WordsUpdateStatsRollback(s) ==
  /\ impl = "part_000"
  /\ reqs[s].pc = "rollback" /\ reqs[s].kind = "stats"
  /\ Rollback
  /\ reqs' = [reqs EXCEPT ![s] = Idle]
  /\ UNCHANGED <<impl, log>>

----------------------------------------------------------------------------
(* Quiz generator: GET /api/test/random/:count and
   GET /api/test/distractors/:id/:count *)

\* mutant: the LIMIT clause is missing
LimitNone(count, available) == available

\* LIMIT ?: how many of the available rows a query hands out; a negative
\* LIMIT is no limit in SQLite
Limit(count, available) ==
  IF count < 0 \/ count > available THEN available ELSE count

\* mutant: the query has no WHERE clause
OtherWordsNoWhere(id) == words

\* ... FROM words WHERE id != ?
OtherWords(id) == {w \in words : w.id # id}

\* ORDER BY RANDOM() LIMIT ?: the results db.all may hand to the callback,
\* each row at most once, in any order
RandomRows(rows, count) ==
  {r \in [1..Limit(count, Cardinality(rows)) -> rows] :
     \A i, j \in DOMAIN r : r[i] = r[j] => i = j}

\* part_000: GET /api/test/random/:count answers with the rows as they are
TestRandom(s, count) ==
  /\ impl = "part_000"
  /\ CanStart(s)
  /\ \A i \in DOMAIN log : log[i].op \notin {"random", "distractors"}
  /\ \E rows \in RandomRows(words, count) :
       log' = Append(log, [op |-> "random", word |-> count, status |-> 200,
                           arg |-> 0, body |-> rows])
  /\ UNCHANGED <<impl, resultStore, readingStore, wordStore, mistakeStore, reqs>>

\* part_000: GET /api/test/distractors/:wordId/:count answers with
\* rows.map(row => row.chinese)
TestDistractors(s, wordId, count) ==
  /\ impl = "part_000"
  /\ CanStart(s)
  /\ \A i \in DOMAIN log : log[i].op \notin {"random", "distractors"}
  /\ \E rows \in RandomRows(OtherWords(wordId), count) :
       log' = Append(log, [op |-> "distractors", word |-> count,
                           status |-> 200, arg |-> wordId, rows |-> rows,
                           body |-> [i \in DOMAIN rows |-> rows[i].chinese]])
  /\ UNCHANGED <<impl, resultStore, readingStore, wordStore, mistakeStore, reqs>>

\* SELECT id, english, chinese ...
SrvColumns(w) == [id |-> w.id, english |-> w.english, chinese |-> w.chinese]

\* server.js: GET /api/test/random/:count refuses a count below 1
SrvTestRandom(s, count) ==
  /\ impl = "server"
  /\ CanStart(s)
  /\ \A i \in DOMAIN log : log[i].op \notin {"random", "distractors"}
  /\ IF count <= 0
       THEN log' = Append(log, [op |-> "random", word |-> count,
                                status |-> 400, arg |-> 0, body |-> << >>])
       ELSE \E rows \in RandomRows({SrvColumns(w) : w \in words}, count) :
              log' = Append(log, [op |-> "random", word |-> count,
                                  status |-> 200, arg |-> 0, body |-> rows])
  /\ UNCHANGED <<impl, resultStore, readingStore, wordStore, mistakeStore, reqs>>

\* server.js: GET /api/test/distractors/:id/:count answers with the rows
SrvTestDistractors(s, id, count) ==
  /\ impl = "server"
  /\ CanStart(s)
  /\ \A i \in DOMAIN log : log[i].op \notin {"random", "distractors"}
  /\ \E rows \in RandomRows({SrvColumns(w) : w \in OtherWords(id)}, count) :
       log' = Append(log, [op |-> "distractors", word |-> count,
                           status |-> 200, arg |-> id, rows |-> rows,
                           body |-> rows])
  /\ UNCHANGED <<impl, resultStore, readingStore, wordStore, mistakeStore, reqs>>

----------------------------------------------------------------------------
(* part_000: POST /api/reading/import, the text *)

\* The text of an import is a sequence of tokens.  A token is one of the
\* section headings or a piece of text between headings; a piece of text
\* is given by what the handler's patterns find in it: its lines, the
\* matches of questionRegex with their captured groups, and the numbered
\* letters that follow one another in it.
\* "passage" stands for the heading 阅读文本, "questions" for 选择题 and
\* "answers" for 答案.
Markers == {"passage", "questions", "answers"}

Marker(name) ==
  [marker |-> name, lines |-> << >>, questions |-> << >>, answers |-> << >>]

Text(lines, found, letters) ==
  [marker |-> "", lines |-> lines, questions |-> found, answers |-> letters]

NoText == Text(<< >>, << >>, << >>)

\* the pieces of text between two headings, taken as one text
RECURSIVE Joined(_)
Joined(toks) ==
  IF toks = << >> THEN NoText
  ELSE Text(Head(toks).lines \o Joined(Tail(toks)).lines,
            Head(toks).questions \o Joined(Tail(toks)).questions,
            Head(toks).answers \o Joined(Tail(toks)).answers)

\* content.split(/\s*阅读文本\s*|\s*选择题\s*|\s*答案\s*/): every occurrence
\* of any of the three headings ends one part and begins the next
Split(content) ==
  LET at == SelectSeq([i \in 1..Len(content) |-> i],
                      LAMBDA i : content[i].marker \in Markers)
  IN [k \in 1..(Len(at) + 1) |->
        Joined(SubSeq(content,
                      IF k = 1 THEN 1 ELSE at[k - 1] + 1,
                      IF k = Len(at) + 1 THEN Len(content) ELSE at[k] - 1))]

\* a string of spaces only
Blank(str) == \A i \in DOMAIN str : str[i] = 32

\* a string without the spaces it begins with
RECURSIVE TrimLeft(_)
TrimLeft(str) ==
  IF str # << >> /\ Head(str) = 32 THEN TrimLeft(Tail(str)) ELSE str

\* a string without the spaces it ends with
RECURSIVE TrimRight(_)
TrimRight(str) ==
  IF str # << >> /\ str[Len(str)] = 32
    THEN TrimRight(SubSeq(str, 1, Len(str) - 1)) ELSE str

\* String.prototype.trim on one line
Trim(str) == TrimRight(TrimLeft(str))

\* contentParts[1].trim().split('\n'): blank lines at either end are gone
RECURSIVE TrimLines(_)
TrimLines(lines) ==
  IF lines = << >> THEN << >>
  ELSE IF Blank(Head(lines)) THEN TrimLines(Tail(lines))
  ELSE IF Blank(lines[Len(lines)]) THEN TrimLines(SubSeq(lines, 1, Len(lines) - 1))
  ELSE lines

\* const title = lines[0].trim()
Title(part) ==
  IF TrimLines(part.lines) = << >> THEN << >> ELSE Trim(TrimLines(part.lines)[1])

\* const actualContent = lines.slice(1).join('\n').trim(), as lines
ActualContent(part) ==
  IF TrimLines(part.lines) = << >> THEN << >>
  ELSE LET rest == TrimLines(Tail(TrimLines(part.lines)))
       IN [i \in DOMAIN rest |->
             IF i = 1 /\ i = Len(rest) THEN Trim(rest[i])
             ELSE IF i = 1 THEN TrimLeft(rest[i])
             ELSE IF i = Len(rest) THEN TrimRight(rest[i])
             ELSE rest[i]]

\* questions.push({ questionText: match[2].trim(), ... }) for every match
Questions(part) ==
  [i \in DOMAIN part.questions |->
     [questionText |-> Trim(part.questions[i].questionText),
      optionA |-> Trim(part.questions[i].optionA),
      optionB |-> Trim(part.questions[i].optionB),
      optionC |-> Trim(part.questions[i].optionC)]]

\* !q.questionText || !q.optionA || !q.optionB || !q.optionC
Incomplete(q) ==
  \/ q.questionText = << >> \/ q.optionA = << >>
  \/ q.optionB = << >> \/ q.optionC = << >>

\* the matches of /(\d+)\s*[.、]\s*([ABC])\s*/g: a numbered letter other
\* than A, B, C is not a match
AnswerMatches(part) ==
  SelectSeq(part.answers, LAMBDA a : a.option \in {"A", "B", "C"})

\* answers[questionNum] = option for every match in turn: the object is
\* keyed by the digits as written, and a later match of the same digits
\* overwrites the earlier one
Answers(matches) ==
  [key \in {matches[i].questionNum : i \in DOMAIN matches} |->
     matches[CHOOSE i \in DOMAIN matches :
               /\ matches[i].questionNum = key
               /\ \A j \in DOMAIN matches :
                    matches[j].questionNum = key => j <= i].option]

\* (i + 1).toString(), as digits
RECURSIVE QuestionNum(_)
QuestionNum(n) == IF n < 10 THEN <<n>> ELSE QuestionNum(n \div 10) \o <<n % 10>>

\* the checks of the handler in their order: the status it answers with
\* at once, or 0 when it goes on to the store
Validate(content) ==
  LET parts == Split(content)
  IN IF content = << >> THEN 400
     ELSE IF Len(parts) < 4 THEN 400
     ELSE LET passage == parts[2]
              found == Questions(parts[3])
              answers == Answers(AnswerMatches(parts[4]))
          IN IF Title(passage) = << >> THEN 400
             ELSE IF ActualContent(passage) = << >> THEN 400
             ELSE IF found = << >> THEN 400
             ELSE IF \E i \in DOMAIN found : Incomplete(found[i]) THEN 400
             ELSE IF DOMAIN answers = {} THEN 400
             ELSE IF Len(found) # Cardinality(DOMAIN answers) THEN 400
             ELSE IF \E i \in DOMAIN found : QuestionNum(i) \notin DOMAIN answers
                    THEN 400
             ELSE 0

----------------------------------------------------------------------------
(* part_000: POST /api/reading/import, the store *)

\* INSERT INTO reading_passages (title, content) VALUES (?, ?)
NewPassage(title, content) ==
  [id |-> nextPassageId, title |-> title, content |-> content]

\* INSERT INTO reading_questions (passage_id, question_text, option_a,
\* option_b, option_c, correct_answer) VALUES (?, ?, ?, ?, ?, ?)
NewQuestion(passageId, q, correctAnswer) ==
  [id |-> nextQuestionId, passage_id |-> passageId,
   question_text |-> q.questionText, option_a |-> q.optionA,
   option_b |-> q.optionB, option_c |-> q.optionC,
   correct_answer |-> correctAnswer]

\* mutant: the error of the passage insert is ignored
PassageErrorGoesOn == "questions"

\* if (err) { db.run('ROLLBACK TRANSACTION'); return res.status(500)... }
PassageError == "rollback"

\* the handler up to the end of db.serialize: a text that fails a check is
\* answered 400; for any other BEGIN TRANSACTION and the passage insert
\* are queued
ReadingImport(s, content) ==
  /\ impl = "part_000"
  /\ reqs[s].pc = "idle" /\ InFlight = {}
  /\ LET status == Validate(content)
         parts == Split(content)
     IN IF status # 0
          THEN /\ log' = Append(log, [op |-> "import", word |-> 0,
                                      status |-> status, content |-> content])
               /\ UNCHANGED <<reqs, inTxn, txnBase>>
          ELSE /\ reqs' = [reqs EXCEPT ![s] =
                             [pc |-> "passage", kind |-> "import",
                              arg |-> [content |-> content,
                                       title |-> Title(parts[2]),
                                       actualContent |-> ActualContent(parts[2]),
                                       questions |-> Questions(parts[3]),
                                       answers |-> Answers(AnswerMatches(parts[4]))],
                              row |-> [passageId |-> 0, pending |-> {},
                                       committed |-> FALSE,
                                       successCount |-> 0, failedCount |-> 0]]]
               /\ BeginTransaction
               /\ UNCHANGED log
  /\ UNCHANGED <<impl, resultStore, readingStore, words, nextWordId, mistakeStore>>

\* the statements the engine may run next of those the passage callback
\* issued, the question inserts by their index and COMMIT TRANSACTION as 0.
\* The callback runs after db.serialize has returned, so the handle is in
\* its default parallel mode and runs these statements in no fixed order
Runnable(row) == row.pending \cup (IF row.committed THEN {} ELSE {0})

\* where an import stands once a statement of the passage callback is done
ImportPc(row) ==
  IF row.pending = {} /\ row.committed THEN "idle" ELSE "questions"

\* the passage insert and its callback: the engine may fail the statement;
\* then ROLLBACK TRANSACTION is queued and 500 answered; else the question
\* inserts and COMMIT TRANSACTION are issued
ReadingImportPassage(s, err) ==
  /\ impl = "part_000"
  /\ reqs[s].pc = "passage" /\ reqs[s].kind = "import"
  /\ IF err
       THEN /\ reqs' = [reqs EXCEPT ![s].pc = PassageError]
            /\ log' = Append(log, [op |-> "import", word |-> 0, status |-> 500,
                                   content |-> reqs[s].arg.content])
            /\ UNCHANGED <<passages, nextPassageId>>
       ELSE /\ passages' = passages \cup
                 {NewPassage(reqs[s].arg.title, reqs[s].arg.actualContent)}
            /\ nextPassageId' = nextPassageId + 1
            /\ reqs' = [reqs EXCEPT ![s].pc = "questions",
                                    ![s].row.passageId = nextPassageId,
                                    ![s].row.pending =
                                       DOMAIN reqs[s].arg.questions]
            /\ UNCHANGED log
  /\ UNCHANGED <<impl, resultStore, questions, nextQuestionId, wordStore,
                 mistakeStore>>

\* the insert of question index and its callback, which counts the
\* outcome: the engine may fail the statement
ReadingImportQuestion(s, index, err) ==
  /\ impl = "part_000"
  /\ reqs[s].pc = "questions" /\ reqs[s].kind = "import"
  /\ index \in Runnable(reqs[s].row) /\ index # 0
  /\ LET row == reqs[s].row
         q == reqs[s].arg.questions[index]
         correctAnswer == reqs[s].arg.answers[QuestionNum(index)]
         next == IF err
                   THEN [row EXCEPT !.pending = @ \ {index},
                                    !.failedCount = @ + 1]
                   ELSE [row EXCEPT !.pending = @ \ {index},
                                    !.successCount = @ + 1]
     IN /\ IF err
             THEN UNCHANGED <<questions, nextQuestionId>>
             ELSE /\ questions' = questions \cup
                       {NewQuestion(row.passageId, q, correctAnswer)}
                  /\ nextQuestionId' = nextQuestionId + 1
        /\ reqs' = [reqs EXCEPT ![s] =
                      IF ImportPc(next) = "idle" THEN Idle
                      ELSE [reqs[s] EXCEPT !.row = next]]
  /\ UNCHANGED <<impl, resultStore, passages, nextPassageId, wordStore,
                 mistakeStore, log>>

\* COMMIT TRANSACTION and its callback, which answers with the count of
\* the question inserts whose callbacks have run without an error so far
ReadingImportCommit(s) ==
  /\ impl = "part_000"
  /\ reqs[s].pc = "questions" /\ reqs[s].kind = "import"
  /\ 0 \in Runnable(reqs[s].row)
  /\ CommitTransaction
  /\ log' = Append(log, [op |-> "import", word |-> reqs[s].row.successCount,
                         status |-> 200, content |-> reqs[s].arg.content])
  /\ LET next == [reqs[s].row EXCEPT !.committed = TRUE]
     IN reqs' = [reqs EXCEPT ![s] =
                   IF ImportPc(next) = "idle" THEN Idle
                   ELSE [reqs[s] EXCEPT !.row = next]]
  /\ UNCHANGED <<impl, resultStore, readingStore, words, nextWordId, mistakeStore>>

\* the queued ROLLBACK TRANSACTION
ReadingImportRollback(s) ==
  /\ impl = "part_000"
  /\ reqs[s].pc = "rollback" /\ reqs[s].kind = "import"
  /\ Rollback
  /\ reqs' = [reqs EXCEPT ![s] = Idle]
  /\ UNCHANGED <<impl, log>>

----------------------------------------------------------------------------
(* part_000: POST /api/reading/submit-answers *)

\* String.prototype.toUpperCase on an answer letter
ToUpperCase(letter) ==
  CASE letter = "a" -> "A"
    [] letter = "b" -> "B"
    [] letter = "c" -> "C"
    [] OTHER -> letter

\* const userAnswer = answers[q.id]; the empty text stands for undefined
\* as well, both being falsy
UserAnswer(answers, q) ==
  IF q.id \in DOMAIN answers THEN answers[q.id] ELSE ""

\* userAnswer && userAnswer.toUpperCase() === q.correct_answer.toUpperCase()
IsCorrect(answers, q) ==
  /\ UserAnswer(answers, q) # ""
  /\ ToUpperCase(UserAnswer(answers, q)) = ToUpperCase(q.correct_answer)

\* SELECT id, correct_answer FROM reading_questions WHERE passage_id = ?
CorrectAnswers(passageId) == {q \in questions : q.passage_id = passageId}

\* a JavaScript number: an integer, or NaN
Number(n) == [nan |-> FALSE, value |-> n]

NaN == [nan |-> TRUE, value |-> 0]

\* Math.round((correctCount / totalQuestions) * 100): the nearest integer,
\* a half going up; 0 / 0 is NaN and Math.round keeps it
Score(correctCount, totalQuestions) ==
  IF totalQuestions = 0 THEN NaN
  ELSE Number((200 * correctCount + totalQuestions) \div (2 * totalQuestions))

\* score INTEGER NOT NULL: a NaN is bound as NULL, which the column refuses
ScoreNotNull(score) == ~score.nan

\* INSERT INTO test_results (score, total_words, correct_count,
\* incorrect_count, type) VALUES (?, ?, ?, ?, ?)
NewTestResult(score, totalQuestions, correctCount) ==
  [id |-> nextTestResultId, score |-> score.value,
   total_words |-> totalQuestions, correct_count |-> correctCount,
   incorrect_count |-> totalQuestions - correctCount,
   type |-> "reading-comprehension"]

\* the handler up to db.all; passageId 0 stands for a missing passageId
SubmitAnswers(s, passageId, answers) ==
  /\ impl = "part_000"
  /\ CanStart(s)
  /\ IF passageId = 0 \/ answers.null
       THEN /\ log' = Append(log, [op |-> "submit", word |-> passageId,
                                   status |-> 400])
            /\ UNCHANGED reqs
       ELSE /\ reqs' = [reqs EXCEPT ![s] =
                          [pc |-> "all", kind |-> "submit",
                           arg |-> [passageId |-> passageId,
                                    answers |-> answers.map],
                           row |-> NoRow]]
            /\ UNCHANGED log
  /\ UNCHANGED <<impl, resultStore, readingStore, wordStore, mistakeStore>>

\* db.all and its callback: the engine may fail the query, answered 500;
\* else the score is computed and the insert issued
SubmitAnswersAll(s, err) ==
  /\ impl = "part_000"
  /\ reqs[s].pc = "all" /\ reqs[s].kind = "submit"
  /\ IF err
       THEN /\ log' = Append(log, [op |-> "submit",
                                   word |-> reqs[s].arg.passageId,
                                   status |-> 500])
            /\ reqs' = [reqs EXCEPT ![s] = Idle]
       ELSE LET correctAnswers == CorrectAnswers(reqs[s].arg.passageId)
                correctCount ==
                  Cardinality({q \in correctAnswers :
                                 IsCorrect(reqs[s].arg.answers, q)})
                totalQuestions == Cardinality(correctAnswers)
            IN /\ reqs' = [reqs EXCEPT ![s].pc = "run", ![s].row =
                             [score |-> Score(correctCount, totalQuestions),
                              correctCount |-> correctCount,
                              totalQuestions |-> totalQuestions]]
               /\ UNCHANGED log
  /\ UNCHANGED <<impl, resultStore, readingStore, wordStore, mistakeStore>>

\* the insert and its callback, which logs an error to the console and
\* answers success: true in either case
SubmitAnswersRun(s, err) ==
  /\ impl = "part_000"
  /\ reqs[s].pc = "run" /\ reqs[s].kind = "submit"
  /\ LET row == reqs[s].row
     IN /\ IF err \/ ~ScoreNotNull(row.score)
             THEN UNCHANGED <<testResults, nextTestResultId>>
             ELSE /\ testResults' = testResults \cup
                       {NewTestResult(row.score, row.totalQuestions,
                                      row.correctCount)}
                  /\ nextTestResultId' = nextTestResultId + 1
        /\ log' = Append(log, [op |-> "submit", word |-> reqs[s].arg.passageId,
                               status |-> 200, score |-> row.score,
                               correctCount |-> row.correctCount,
                               totalQuestions |-> row.totalQuestions,
                               answers |-> reqs[s].arg.answers])
  /\ reqs' = [reqs EXCEPT ![s] = Idle]
  /\ UNCHANGED <<impl, readingStore, wordStore, mistakeStore>>

----------------------------------------------------------------------------
(* GET /api/words/stats, GET /api/words/count and GET /api/words/:id *)

\* the GET routes under /api/words/ by the last segment of their path, in
\* the order part_000 registers them
Routes == <<"stats", "count", ":id">>

\* the same routes in the order server.js registers them
SrvRoutes == <<"count", ":id", "stats">>

\* a route's path matches the path of a request: a parameter matches any
\* segment
Matches(route, segment) == route = ":id" \/ route = segment

\* Express hands a request to the first route registered that matches it
Dispatch(routes, segment) ==
  routes[CHOOSE i \in DOMAIN routes :
           /\ Matches(routes[i], segment)
           /\ \A j \in 1..(i - 1) : ~Matches(routes[j], segment)]

\* WHERE id = ? with the segment bound as text: the INTEGER column equals
\* a text that spells its number and no other text; 0 is no id at all
WordIdOf(segment) ==
  CASE segment = "1" -> 1
    [] segment = "2" -> 2
    [] segment = "3" -> 3
    [] OTHER -> 0

\* Math.round((part / whole) * 100), or 0 when there are no words
Rate(part, whole) ==
  IF whole > 0 THEN (200 * part + whole) \div (2 * whole) ELSE 0

\* part_000: the body of GET /api/words/stats
WordsStats ==
  LET total_words_count == Cardinality(words)
      tested_words_count == Cardinality({w \in words : w.exposure > 0})
      familiar_words_count ==
        Cardinality({w \in words : w.familiarity >= FamiliarThreshold})
  IN [total_words_count |-> total_words_count,
      tested_words_count |-> tested_words_count,
      familiar_words_count |-> familiar_words_count,
      exposure_rate |-> Rate(tested_words_count, total_words_count),
      familiarity_rate |-> Rate(familiar_words_count, total_words_count)]

\* the sum of a column over the rows
RECURSIVE Sum(_, _)
Sum(rows, column) ==
  IF rows = {} THEN 0
  ELSE LET row == CHOOSE row \in rows : TRUE
       IN row[column] + Sum(rows \ {row}, column)

\* AVG(column): NULL over no rows, else the sum by the number of rows
Avg(rows, column) ==
  IF rows = {} THEN [null |-> TRUE, sum |-> 0, rows |-> 0]
  ELSE [null |-> FALSE, sum |-> Sum(rows, column), rows |-> Cardinality(rows)]

\* server.js: the body of GET /api/words/stats, SELECT COUNT(*) as total,
\* AVG(familiarity) as avg_familiarity, AVG(exposure) as avg_exposure
SrvWordsStats ==
  [total |-> Cardinality(words),
   avg_familiarity |-> Avg(words, "familiarity"),
   avg_exposure |-> Avg(words, "exposure")]

\* SELECT * FROM words WHERE id = ?
WordsWithId(segment) == {w \in words : w.id = WordIdOf(segment)}

\* part_000: GET /api/words/<segment>, each handler one query
WordsGet(s, segment) ==
  /\ impl = "part_000"
  /\ CanStart(s)
  /\ LET route == Dispatch(Routes, segment)
         answer(status, body) ==
           log' = Append(log, [op |-> "get", word |-> 0, path |-> segment,
                               route |-> route, status |-> status,
                               body |-> body])
     IN CASE route = "stats" -> answer(200, WordsStats)
          [] route = "count" -> answer(200, [count |-> Cardinality(words)])
          [] route = ":id" ->
               IF WordsWithId(segment) = {}
                 THEN answer(404, << >>)
                 ELSE \E row \in WordsWithId(segment) : answer(200, row)
  /\ UNCHANGED <<impl, resultStore, readingStore, wordStore, mistakeStore, reqs>>

\* server.js: GET /api/words/<segment>
SrvWordsGet(s, segment) ==
  /\ impl = "server"
  /\ CanStart(s)
  /\ LET route == Dispatch(SrvRoutes, segment)
         answer(status, body) ==
           log' = Append(log, [op |-> "get", word |-> 0, path |-> segment,
                               route |-> route, status |-> status,
                               body |-> body])
     IN CASE route = "stats" -> answer(200, SrvWordsStats)
          [] route = "count" -> answer(200, [total |-> Cardinality(words)])
          [] route = ":id" ->
               IF WordsWithId(segment) = {}
                 THEN answer(404, << >>)
                 ELSE \E row \in WordsWithId(segment) :
                        answer(200, SrvColumns(row))
  /\ UNCHANGED <<impl, resultStore, readingStore, wordStore, mistakeStore, reqs>>

----------------------------------------------------------------------------
(* Initial states *)

\* a store that holds the words "a" and "b", never tested, and no mistakes
Init ==
  /\ impl \in Impls
  /\ words = {NewWord(1, <<97>>, <<20013>>), NewWord(2, <<98>>, <<20013>>)}
  /\ nextWordId = 3
  /\ inTxn = FALSE
  /\ txnBase = << >>
  /\ mistakes = {}
  /\ nextMistakeId = 1
  /\ passages = {}
  /\ nextPassageId = 1
  /\ questions = {}
  /\ nextQuestionId = 1
  /\ testResults = {}
  /\ nextTestResultId = 1
  /\ reqs = [s \in Slots |-> IF impl = "server" THEN SrvIdle ELSE Idle]
  /\ log = <<>>

\* a step of a run in which no request arrives before the one in flight
\* has finished
OneAtATime ==
  /\ Cardinality(InFlight') <= 1
  /\ InFlight # {} => \E s \in InFlight : reqs'[s] # reqs[s]

Next ==
  \E s \in Slots :
    \/ \E word_id \in WordIdInputs : MistakesPost(s, word_id)
    \/ MistakesPostGet(s)
    \/ MistakesPostRun(s)
    \/ \E wordId \in WordIdInputs \ {0} : MistakesCorrect(s, wordId)
    \/ MistakesCorrectGet(s)
    \/ MistakesCorrectRun(s)
    \/ \E id \in MistakeIdInputs : MistakesDelete(s, id)
    \/ MistakesClear(s)
    \/ \E word_id \in WordIdInputs : SrvMistakesPost(s, word_id)
    \/ SrvMistakesPostGet(s)
    \/ SrvMistakesPostRun(s)
    \/ \E wordId \in WordIdInputs \ {0} : SrvMistakesCorrect(s, wordId)
    \/ SrvMistakesCorrectGet(s)
    \/ SrvMistakesCorrectRun(s)
    \/ \E id \in MistakeIdInputs : SrvMistakesDelete(s, id)
    \/ SrvMistakesClear(s)

\* the mistake tracker with requests interleaved between their store steps
Spec == Init /\ [][Next]_vars

\* the mistake tracker with one request at a time: a request starts only
\* after the one before it has been answered
NextSeq == Next /\ OneAtATime

SpecSeq == Init /\ [][NextSeq]_vars

NextWords ==
  \E s \in Slots :
    \/ \E english \in EnglishInputs, chinese \in ChineseInputs :
         WordsPost(s, english, chinese)
    \/ WordsPostGet(s)
    \/ WordsPostRun(s)
    \/ \E wordId \in StatsIdInputs, isCorrect \in BOOLEAN :
         WordsUpdateStats(s, wordId, isCorrect)
    \/ WordsUpdateStatsExposure(s)
    \/ WordsUpdateStatsFamiliarity(s)
    \/ WordsUpdateStatsCommit(s)
    \/ \E english \in EnglishInputs, chinese \in ChineseInputs :
         SrvWordsPost(s, english, chinese)
    \/ SrvWordsPostRun(s)
    \/ \E id \in StatsIdInputs, isCorrect \in BOOLEAN :
         SrvWordsUpdateStats(s, id, isCorrect)
    \/ SrvWordsUpdateStatsRun(s)

\* the word store with requests interleaved between their store steps
SpecWords == Init /\ [][NextWords]_vars

\* the word store with one request at a time
NextWordsSeq == NextWords /\ OneAtATime

SpecWordsSeq == Init /\ [][NextWordsSeq]_vars

NextEdit ==
  \E s \in Slots :
    \/ \E english \in EnglishInputs, chinese \in ChineseInputs :
         WordsPost(s, english, chinese)
    \/ WordsPostGet(s)
    \/ WordsPostRun(s)
    \/ \E id \in StatsIdInputs, english \in PutEnglishInputs,
          chinese \in ChineseInputs : WordsPut(s, id, english, chinese)
    \/ WordsPutRun(s)
    \/ \E english \in EnglishInputs, chinese \in ChineseInputs :
         SrvWordsPost(s, english, chinese)
    \/ SrvWordsPostRun(s)
    \/ \E id \in StatsIdInputs, english \in PutEnglishInputs,
          chinese \in ChineseInputs : SrvWordsPut(s, id, english, chinese)
    \/ SrvWordsPutGet(s)
    \/ SrvWordsPutRun(s)

\* adding and editing words, requests interleaved
SpecEdit == Init /\ [][NextEdit]_vars

NextCascade ==
  \/ Next
  \/ \E s \in Slots :
       \/ \E id \in DeleteIdInputs : WordsDelete(s, id)
       \/ \E idArray \in SUBSET DeleteIdInputs : WordsDeleteBatch(s, idArray)
       \/ WordsClear(s)
       \/ \E id \in DeleteIdInputs : SrvWordsDelete(s, id)
       \/ \E ids \in SUBSET DeleteIdInputs : SrvWordsBatchDelete(s, ids)
       \/ SrvWordsClear(s)

\* the mistake tracker together with the routes that delete words
SpecCascade == Init /\ [][NextCascade]_vars

\* the items a client sends in a batch: null, one without chinese, "c",
\* "C", and "B", which the store holds as "b"
BatchItems ==
  {BatchItem(TRUE, << >>, << >>), BatchItem(FALSE, <<99>>, << >>),
   BatchItem(FALSE, <<99>>, <<20013>>), BatchItem(FALSE, <<67>>, <<20013>>),
   BatchItem(FALSE, <<66>>, <<20013>>)}

BatchInputs == UNION {[1..n -> BatchItems] : n \in 0..MaxBatch}

NextBatch ==
  \E s \in Slots :
    \/ \E isArray \in BOOLEAN, items \in BatchInputs : WordsBatch(s, isArray, items)
    \/ WordsBatchGet(s)
    \/ \E i \in 1..MaxBatch : WordsBatchRun(s, i)
    \/ \E err \in BOOLEAN : WordsBatchCommit(s, err)
    \/ WordsBatchRollback(s)

\* one batch create against the store of Init, nothing else running
SpecBatch == Init /\ [][NextBatch]_vars

NextQuiz ==
  \E s \in Slots :
    \/ \E count \in CountInputs : TestRandom(s, count)
    \/ \E wordId \in StatsIdInputs, count \in CountInputs :
         TestDistractors(s, wordId, count)
    \/ \E count \in CountInputs : SrvTestRandom(s, count)
    \/ \E id \in StatsIdInputs, count \in CountInputs :
         SrvTestDistractors(s, id, count)
    \/ \E english \in EnglishInputs, chinese \in ChineseInputs :
         WordsPost(s, english, chinese)
    \/ WordsPostGet(s)
    \/ WordsPostRun(s)
    \/ \E english \in EnglishInputs, chinese \in ChineseInputs :
         SrvWordsPost(s, english, chinese)
    \/ SrvWordsPostRun(s)
    \/ \E id \in DeleteIdInputs : WordsDelete(s, id)
    \/ \E id \in DeleteIdInputs : SrvWordsDelete(s, id)

\* the quiz generator over a word store that grows and shrinks; one quiz
\* query in a behaviour
SpecQuiz == Init /\ [][NextQuiz]_vars

\* the passage section of an import: "T" and "B" on two lines with spaces
\* around them, or a title alone
PassageTexts ==
  {Text(<< <<32, 84>>, <<66, 32>>, <<32>> >>, << >>, << >>),
   Text(<< <<84>> >>, << >>, << >>)}

\* what questionRegex finds for question k: "Qk" with options a, b, c
QuestionFound(k) ==
  [questionText |-> <<81, 48 + k>>, optionA |-> <<97>>,
   optionB |-> <<98, 32>>, optionC |-> <<99>>]

\* the questions section of an import: 0 to MaxQuestions questions, or one
\* question whose option C is blank
QuestionTexts ==
  {Text(<< <<81>> >>, [k \in 1..n |-> QuestionFound(k)], << >>)
     : n \in 0..MaxQuestions}
  \cup {Text(<< <<81>> >>, <<[QuestionFound(1) EXCEPT !.optionC = <<32>>]>>, << >>)}

NumberedLetter(questionNum, option) ==
  [questionNum |-> questionNum, option |-> option]

\* the answers 1. A up to n. A
AnswerKey(n) == [k \in 1..n |-> NumberedLetter(QuestionNum(k), "A")]

\* the answers section of an import: a key for 0 to MaxQuestions + 1
\* questions; a key that answers question 1 a second time; 1 and 3
\* without 2; "01" for 1; a letter D alone and after a full key
AnswerTexts ==
  {Text(<< <<65>> >>, << >>, letters) : letters \in
     {AnswerKey(n) : n \in 0..(MaxQuestions + 1)}
     \cup {AnswerKey(n) \o <<NumberedLetter(<<1>>, "B")>> : n \in 1..MaxQuestions}
     \cup {AnswerKey(n) \o <<NumberedLetter(QuestionNum(n + 1), "D")>>
             : n \in 0..MaxQuestions}
     \cup {<<NumberedLetter(<<1>>, "A"), NumberedLetter(<<3>>, "C")>>,
           <<NumberedLetter(<<0, 1>>, "A")>>}}

\* a heading, or nothing where the heading is left out
Heading(name) == IF name = "" THEN << >> ELSE <<Marker(name)>>

\* the three sections in their order, each under the heading given for it
\* or under none
Assemble(m1, passage, m2, found, m3, letters) ==
  Heading(m1) \o <<passage>> \o Heading(m2) \o <<found>>
    \o Heading(m3) \o <<letters>>

\* the texts a client sends: the empty text, and the three sections each
\* under any of the three headings or under none
NextReading ==
  \E s \in Slots :
    \/ /\ log = << >> /\ InFlight = {}
       /\ \/ ReadingImport(s, << >>)
          \/ \E m1 \in Markers \cup {""}, m2 \in Markers \cup {""},
                m3 \in Markers \cup {""}, passage \in PassageTexts,
                found \in QuestionTexts, letters \in AnswerTexts :
               ReadingImport(s, Assemble(m1, passage, m2, found, m3, letters))
    \/ \E err \in BOOLEAN : ReadingImportPassage(s, err)
    \/ \E index \in 1..MaxQuestions, err \in BOOLEAN :
         ReadingImportQuestion(s, index, err)
    \/ ReadingImportCommit(s)
    \/ ReadingImportRollback(s)

\* one reading import against the store of Init, nothing else running
SpecReading == Init /\ [][NextReading]_vars

\* passage ids a client sends to POST /api/reading/submit-answers
PassageIdInputs == {0, 1, 2}

\* the letters a client answers a question with
LetterInputs == {"A", "a", "B"}

\* the answers a client submits: null, or a map from some question ids to
\* letters
AnswersInputs ==
  {[null |-> TRUE, map |-> << >>]}
  \cup {[null |-> FALSE, map |-> m] :
          m \in UNION {[ids -> LetterInputs] : ids \in SUBSET (1..MaxQuestions)}}

\* the texts imported before the answers are submitted: a title, a body,
\* 1 to MaxQuestions questions and the key that answers each with A
SubmitTexts ==
  {Assemble("passage", Text(<< <<84>>, <<66>> >>, << >>, << >>),
            "questions",
            Text(<< <<81>> >>, [k \in 1..n |-> QuestionFound(k)], << >>),
            "answers", Text(<< <<65>> >>, << >>, AnswerKey(n)))
     : n \in 1..MaxQuestions}

NextSubmit ==
  \E s \in Slots :
    \/ /\ log = << >> /\ InFlight = {}
       /\ \E content \in SubmitTexts : ReadingImport(s, content)
    \/ \E err \in BOOLEAN : ReadingImportPassage(s, err)
    \/ \E index \in 1..MaxQuestions, err \in BOOLEAN :
         ReadingImportQuestion(s, index, err)
    \/ ReadingImportCommit(s)
    \/ ReadingImportRollback(s)
    \/ /\ InFlight = {}
       /\ \A i \in DOMAIN log : log[i].op # "submit"
       /\ \E passageId \in PassageIdInputs, answers \in AnswersInputs :
            SubmitAnswers(s, passageId, answers)
    \/ \E err \in BOOLEAN : SubmitAnswersAll(s, err)
    \/ \E err \in BOOLEAN : SubmitAnswersRun(s, err)

\* at most one reading import and then one submission of answers, one
\* request at a time
SpecSubmit == Init /\ [][NextSubmit]_vars

NextStats ==
  \E s \in Slots :
    \/ \E wordId \in StatsIdInputs, isCorrect \in BOOLEAN :
         WordsUpdateStats(s, wordId, isCorrect)
    \/ WordsUpdateStatsExposure(s)
    \/ WordsUpdateStatsExposureError(s)
    \/ WordsUpdateStatsFamiliarity(s)
    \/ WordsUpdateStatsFamiliarityError(s)
    \/ WordsUpdateStatsCommit(s)
    \/ WordsUpdateStatsRollback(s)

\* update-stats requests whose statements may fail, interleaved between
\* their store steps
SpecStats == Init /\ [][NextStats]_vars

\* a statement in line for a batch request runs and calls back
BatchStep(s) ==
  \/ WordsBatchGet(s)
  \/ \E i \in 1..MaxBatch : WordsBatchRun(s, i)
  \/ \E err \in BOOLEAN : WordsBatchCommit(s, err)
  \/ WordsBatchRollback(s)

\* one batch create where the engine runs every statement that is in line
\* and the event loop every callback
FairBatch == SpecBatch /\ \A s \in Slots : WF_vars(BatchStep(s))

\* the last segment of the path of a GET /api/words/... request
SegmentInputs == {"stats", "count", "1", "3"}

NextRoutes ==
  \E s \in Slots :
    \/ \E english \in EnglishInputs, chinese \in ChineseInputs :
         WordsPost(s, english, chinese)
    \/ WordsPostGet(s)
    \/ WordsPostRun(s)
    \/ \E english \in EnglishInputs, chinese \in ChineseInputs :
         SrvWordsPost(s, english, chinese)
    \/ SrvWordsPostRun(s)
    \/ \E segment \in SegmentInputs : WordsGet(s, segment)
    \/ \E segment \in SegmentInputs : SrvWordsGet(s, segment)

\* words are added and the GET routes under /api/words/ read, requests
\* interleaved
SpecRoutes == Init /\ [][NextRoutes]_vars

NextFamiliar ==
  \E s \in Slots :
    \/ \E english \in EnglishInputs, chinese \in ChineseInputs :
         WordsPost(s, english, chinese)
    \/ WordsPostGet(s)
    \/ WordsPostRun(s)
    \/ \E wordId \in StatsIdInputs, isCorrect \in BOOLEAN :
         /\ \E w \in words : w.id = wordId
         /\ WordsUpdateStats(s, wordId, isCorrect)
    \/ WordsUpdateStatsExposure(s)
    \/ WordsUpdateStatsFamiliarity(s)
    \/ WordsUpdateStatsCommit(s)
    \/ \E segment \in SegmentInputs : WordsGet(s, segment)

\* part_000: words are added, stored words are tested without storage
\* errors, and the GET routes read, requests interleaved
SpecFamiliar == Init /\ [][NextFamiliar]_vars

----------------------------------------------------------------------------
(* The mistake tracker's contract *)

\* the answers recorded for a word so far, oldest first
RECURSIVE AnswersOf(_, _)
AnswersOf(l, w) ==
  IF l = << >> THEN << >>
  ELSE LET e == l[Len(l)]
           rest == AnswersOf(SubSeq(l, 1, Len(l) - 1), w)
       IN IF e.word = w /\ e.op \in {"wrong", "correct"}
            THEN Append(rest, e.op) ELSE rest

\* no mistake row was removed through DELETE /api/mistakes[/:id]
OnlyAnswers(l) == \A i \in DOMAIN l : l[i].op \in {"wrong", "correct"}

\* the answers contain a wrong one and fewer than PromotionThreshold
\* correct ones follow the last wrong one
StreakFlagged(answers) ==
  \E i \in DOMAIN answers :
    /\ answers[i] = "wrong"
    /\ \A j \in DOMAIN answers : j > i => answers[j] = "correct"
    /\ Len(answers) - i < PromotionThreshold

\* C1: under the streak policy, with answers applied one at a time to a
\* word that starts Normal, the word has a mistake row exactly when the
\* answers contain a wrong one and fewer than two correct ones follow the
\* last wrong one.
C1_StreakPolicy ==
  (impl = "part_000" /\ InFlight = {} /\ OnlyAnswers(log)) =>
    \A w \in WordIdInputs \ {0} :
      (MistakesOf(w) # {}) <=> StreakFlagged(AnswersOf(log, w))

\* wrong, correct, correct has been applied to word 1 and the row is gone
C1_Witness ==
  /\ impl = "part_000" /\ InFlight = {}
  /\ AnswersOf(log, 1) = <<"wrong", "correct", "correct">>
  /\ MistakesOf(1) = {}

\* C2: a wrong answer written for a word that has no mistake row creates
\* exactly one row for it, with mistake_count 1 and correct_streak 0, and
\* leaves every other row as it was.
C2_WrongOnNormalInserts ==
  [][\A s \in Slots :
       ( /\ impl = "part_000"
         /\ reqs[s].pc = "run" /\ reqs[s].kind = "wrong"
         /\ reqs[s].row = NoRow /\ MistakesOf(reqs[s].arg) = {}
         /\ reqs'[s].pc = "idle" )
       => \E m \in mistakes' :
            /\ m \notin mistakes
            /\ mistakes' = mistakes \cup {m}
            /\ m.word_id = reqs[s].arg
            /\ m.mistake_count = 1
            /\ m.correct_streak = 0
            /\ \A o \in mistakes : o.id # m.id]_vars

\* the first wrong answer for word 1 has been answered and its row stored
C2_Witness ==
  /\ impl = "part_000"
  /\ log = <<[op |-> "wrong", word |-> 1, status |-> 200]>>
  /\ mistakes = {[id |-> 1, word_id |-> 1, mistake_count |-> 1, correct_streak |-> 0]}

\* C3: a wrong answer written for a word whose mistake row is stored keeps
\* the row, raises its stored mistake_count by exactly 1 and sets its
\* correct_streak to 0, whatever the streak was; no other row changes.
C3_WrongOnFlaggedBumps ==
  [][\A s \in Slots :
       ( /\ impl = "part_000"
         /\ reqs[s].pc = "run" /\ reqs[s].kind = "wrong"
         /\ reqs[s].row # NoRow
         /\ \E m \in mistakes : m.id = reqs[s].row.id
         /\ reqs'[s].pc = "idle" )
       => LET m == CHOOSE m \in mistakes : m.id = reqs[s].row.id
          IN mistakes' = (mistakes \ {m}) \cup
               {[id |-> m.id, word_id |-> m.word_id,
                 mistake_count |-> m.mistake_count + 1,
                 correct_streak |-> 0]}]_vars

\* wrong, correct, wrong for word 1: the row that had streak 1 now has
\* count 2 and streak 0
C3_Witness ==
  /\ impl = "part_000"
  /\ AnswersOf(log, 1) = <<"wrong", "correct", "wrong">>
  /\ mistakes = {[id |-> 1, word_id |-> 1, mistake_count |-> 2, correct_streak |-> 0]}

\* C4: with requests one at a time, a correct answer for a word with a
\* mistake row raises the row's correct_streak by 1; when the new streak
\* reaches 2 the row is deleted and the word has no row, otherwise the row
\* stays with the new streak and the same mistake_count; no other row
\* changes.
C4_CorrectOnFlagged ==
  [][\A s \in Slots :
       ( /\ impl = "part_000"
         /\ reqs[s].pc = "run" /\ reqs[s].kind = "correct"
         /\ reqs'[s].pc = "idle" )
       => /\ MistakesOf(reqs[s].arg) # {}
          /\ LET m == CHOOSE m \in mistakes : m.word_id = reqs[s].arg
             IN IF m.correct_streak + 1 = PromotionThreshold
                  THEN /\ mistakes' = mistakes \ {m}
                       /\ \A o \in mistakes' : o.word_id # reqs[s].arg
                  ELSE mistakes' = (mistakes \ {m}) \cup
                         {[id |-> m.id, word_id |-> m.word_id,
                           mistake_count |-> m.mistake_count,
                           correct_streak |-> m.correct_streak + 1]}]_vars

\* two wrong answers and one correct answer for word 1: the row stays,
\* count 2, streak 1
C4_Witness ==
  /\ impl = "part_000"
  /\ AnswersOf(log, 1) = <<"wrong", "wrong", "correct">>
  /\ mistakes = {[id |-> 1, word_id |-> 1, mistake_count |-> 2, correct_streak |-> 1]}

\* C5: a correct answer for a word that has no mistake row is answered 404
\* and changes nothing: no mistake row and no word row is created, changed
\* or deleted (both copies of the service).
C5_CorrectOnNormalNotFound ==
  [][\A s \in Slots :
       ( /\ reqs[s].pc = "get" /\ reqs[s].kind = "correct"
         /\ MistakesOf(reqs[s].arg) = {}
         /\ reqs'[s] # reqs[s] )
       => /\ log' = Append(log, [op |-> "correct", word |-> reqs[s].arg, status |-> 404])
          /\ reqs'[s].pc = "idle"
          /\ UNCHANGED <<words, nextWordId, mistakes, nextMistakeId>>]_vars

\* a correct answer for word 2, which has no row while word 1 has one, was
\* answered 404
C5_Witness ==
  /\ Len(log) >= 2
  /\ log[Len(log)] = [op |-> "correct", word |-> 2, status |-> 404]
  /\ MistakesOf(1) # {} /\ MistakesOf(2) = {}

\* C6: at most one mistake row per word_id, in every reachable state and
\* under every interleaving of the requests.
C6_AtMostOneRowPerWord ==
  \A w \in WordIdInputs : Cardinality(MistakesOf(w)) <= 1

\* C7: every stored mistake row of the streak copy has mistake_count >= 1
\* and 0 <= correct_streak < 2.
C7_WellFormedRows ==
  impl = "part_000" =>
    \A m \in mistakes :
      /\ m.mistake_count >= 1
      /\ 0 <= m.correct_streak
      /\ m.correct_streak < PromotionThreshold

\* a row with streak 1 is stored and a row has been promoted out before
C7_Witness ==
  /\ impl = "part_000"
  /\ \E m \in mistakes : m.correct_streak = 1 /\ m.mistake_count >= 1
  /\ nextMistakeId > Cardinality(mistakes) + 1

----------------------------------------------------------------------------
(* The word store's contract *)

\* C8: in every reachable state every word has exposure >= 0 and
\* familiarity >= 0, in both copies of the service.
C8_NonNegativeCounters ==
  \A w \in words : w.exposure >= 0 /\ w.familiarity >= 0

\* the words a request found, with the counters of word id raised as an
\* updateStats(id, isCorrect) is to raise them
StatsApplied(before, id, isCorrect) ==
  {IF w.id = id
     THEN [w EXCEPT !.exposure = w.exposure + 1,
                    !.familiarity = w.familiarity + (IF isCorrect THEN 1 ELSE 0)]
     ELSE w : w \in before}

\* C9: with requests one at a time, when updateStats(id, isCorrect) on an
\* existing word is answered, the word's exposure is 1 more than the request
\* found it, its familiarity 1 more when isCorrect and the same otherwise,
\* every other word is as the request found it, and the answer is success.
C9_UpdateStatsCounts ==
  [][\A s \in Slots :
       ( /\ impl = "part_000"
         /\ reqs[s].kind = "stats"
         /\ Len(log') = Len(log) + 1
         /\ \E w \in reqs[s].row : w.id = reqs[s].arg.id )
       => /\ words' = StatsApplied(reqs[s].row, reqs[s].arg.id, reqs[s].arg.isCorrect)
          /\ log'[Len(log')] = [op |-> "stats", word |-> reqs[s].arg.id, status |-> 200]]_vars

\* word 1 was tested twice, once correctly once not; word 2 never
C9_Witness ==
  /\ impl = "part_000" /\ InFlight = {}
  /\ \E w \in words : w.id = 1 /\ w.exposure = 2 /\ w.familiarity = 1
  /\ \E w \in words : w.id = 2 /\ w.exposure = 0 /\ w.familiarity = 0

\* C10: an add request that finishes while a word with the same lower-cased
\* english is stored is answered 409 and stores nothing, in both copies and
\* under every interleaving of the check and the insert.
C10_DuplicateAddConflicts ==
  [][\A s \in Slots :
       ( /\ reqs[s].kind = "add"
         /\ reqs'[s].pc = "idle"
         /\ WordsLike(reqs[s].arg.english) # {} )
       => /\ words' = words
          /\ log'[Len(log')].status = 409]_vars

\* C11: an update answers 409 and changes nothing when another word already
\* holds the new english, compared without case, and answers 404 when no
\* word has the id; so no update makes two words share a lower-cased
\* english.
C11_UpdateConflicts ==
  [][\A s \in Slots :
       ( /\ reqs[s].kind = "put" /\ reqs[s].pc # "idle"
         /\ reqs'[s].pc = "idle" )
       => LET a == reqs[s].arg
              taken == \E w \in words :
                         w.id # a.id /\ Lower(w.english) = Lower(a.english)
              stored == \E w \in words : w.id = a.id
              status == log'[Len(log')].status
          IN /\ (taken /\ stored) => (status = 409 /\ words' = words)
             /\ (taken /\ ~stored) => (status \in {404, 409} /\ words' = words)
             /\ (~taken /\ ~stored) => (status = 404 /\ words' = words)]_vars

\* C12: every mistake row refers to a stored word: deleting a word deletes
\* its mistake row with it.
C12_MistakesReferToWords ==
  \A m \in mistakes : \E w \in words : w.id = m.word_id

\* C13: a batch create over N items reports every item in exactly one of
\* the lists success, duplicate and error, so that the three lists have N
\* entries together once every item is processed, and an item that is
\* invalid or a duplicate does not keep a later valid item, which no stored
\* word and no earlier item matches, from being inserted.
C13_BatchReportsEveryItem ==
  \A s \in Slots :
    (reqs[s].kind = "batch" /\ reqs[s].pc # "items") =>
      LET items == reqs[s].arg
          results == reqs[s].row.results
          reported == [k \in DOMAIN results.duplicate |-> results.duplicate[k].index]
                        \o [k \in DOMAIN results.error |-> results.error[k].index]
          Fresh(i) ==
            /\ ~items[i].null /\ ~InvalidItem(items[i])
            /\ \A w \in txnBase[1].words :
                 Lower(w.english) # Lower(items[i].english)
            /\ \A j \in 1..(i - 1) :
                 Lower(items[j].english) # Lower(items[i].english)
      IN /\ reqs[s].pc # "rejected"
         /\ Len(results.success) + Len(reported) = Len(items)
         /\ \A k, l \in DOMAIN reported : reported[k] = reported[l] => k = l
         /\ \A k \in DOMAIN reported : reported[k] \in 0..(Len(items) - 1)
         /\ reqs[s].pc = "commit" =>
              \A i \in DOMAIN items :
                Fresh(i) => \E w \in words : w.english = items[i].english

\* C14: when the COMMIT of a batch create fails, the request answers 500
\* and, once its ROLLBACK has run, the words table is the one the batch
\* found: no word of the success list is stored.
C14_CommitFailureRollsBack ==
  [][\A s \in Slots :
       reqs[s].kind = "batch" =>
         /\ (reqs[s].pc = "commit" /\ inTxn') =>
              /\ Len(log') = Len(log) + 1
              /\ log'[Len(log')].status = 500
              /\ log'[Len(log')].body = reqs[s].row.results
         /\ (reqs[s].pc = "rollback" /\ reqs'[s].pc = "idle") =>
              /\ log[Len(log)].status = 500
              /\ words' = txnBase[1].words
              /\ ~inTxn'
              /\ \A k \in DOMAIN reqs[s].row.results.success :
                   \A w \in words' :
                     /\ w.id # reqs[s].row.results.success[k].id
                     /\ w.english # reqs[s].row.results.success[k].english]_vars

\* a batch that had inserted "c" was answered 500 and rolled back
C14_Witness ==
  /\ InFlight = {}
  /\ Len(log) = 1 /\ log[1].op = "batch" /\ log[1].status = 500
  /\ Len(log[1].body.success) = 1
  /\ log[1].body.success[1].english = <<99>>
  /\ \A w \in words : w.english # <<99>>
  /\ ~inTxn

----------------------------------------------------------------------------
(* The quiz generator's contract *)

Min(a, b) == IF a < b THEN a ELSE b

\* this step answers a request
Answered == Len(log') = Len(log) + 1

\* C15: random_words(n) with n >= 1 answers with exactly min(n, number of
\* stored words) rows, each of them a stored word and no word twice; with n
\* above the number of stored words every stored word is there once.
C15_RandomWords ==
  [][(Answered /\ log'[Len(log')].op = "random" /\ log'[Len(log')].word >= 1)
       => LET n == log'[Len(log')].word
              body == log'[Len(log')].body
          IN /\ log'[Len(log')].status = 200
             /\ Len(body) = Min(n, Cardinality(words))
             /\ \A i \in DOMAIN body :
                  \E w \in words : /\ w.id = body[i].id
                                   /\ w.english = body[i].english
                                   /\ w.chinese = body[i].chinese
             /\ \A i, j \in DOMAIN body : body[i].id = body[j].id => i = j
             /\ n > Cardinality(words) =>
                  {body[i].id : i \in DOMAIN body} = {w.id : w \in words}]_vars

\* three words were asked for while two were stored, and two came back
C15_Witness ==
  \E i \in DOMAIN log :
    /\ log[i].op = "random" /\ log[i].word = 3 /\ log[i].status = 200
    /\ Len(log[i].body) = 2
    /\ log[i].body[1].id # log[i].body[2].id

\* C16: distractors(word_id, n) answers with min(n, number of words other
\* than word_id) entries, each taken from another stored word, no word
\* used twice and the word word_id never used.
C16_Distractors ==
  [][(Answered /\ log'[Len(log')].op = "distractors"
        /\ log'[Len(log')].word >= 0)
       => LET n == log'[Len(log')].word
              word_id == log'[Len(log')].arg
              rows == log'[Len(log')].rows
              body == log'[Len(log')].body
          IN /\ log'[Len(log')].status = 200
             /\ Len(body) = Min(n, Cardinality({w \in words : w.id # word_id}))
             /\ Len(rows) = Len(body)
             /\ \A i \in DOMAIN body :
                  \E w \in words :
                    /\ w.id # word_id
                    /\ w.chinese = rows[i].chinese
                    /\ IF impl = "part_000"
                         THEN rows[i] = w /\ body[i] = w.chinese
                         ELSE rows[i].id = w.id /\ body[i] = rows[i]
             /\ \A i, j \in DOMAIN rows : rows[i] = rows[j] => i = j]_vars

\* three distractors were asked for word 1 while one other word was
\* stored, and that one came back
C16_Witness ==
  \E i \in DOMAIN log :
    /\ log[i].op = "distractors" /\ log[i].arg = 1 /\ log[i].word = 3
    /\ Len(log[i].body) = 1
    /\ log[i].rows[1].chinese = <<20013>>

----------------------------------------------------------------------------
(* The reading importer's contract *)

\* the rows of reading_questions that belong to a passage
QuestionsOf(p) == {q \in questions : q.passage_id = p.id}

\* this step is the import handler taking a text on to the store
Accepted(s) == reqs[s].pc = "idle" /\ reqs'[s].pc = "passage"

\* this step is the import handler refusing a text
Refused ==
  /\ Answered
  /\ log'[Len(log')].op = "import" /\ log'[Len(log')].status = 400

\* C17: a reading import is atomic: every question row belongs to a stored
\* passage, and outside a transaction every stored passage has at least
\* one question row and as many as were parsed for it; an import with a
\* failed question insert leaves no passage committed.
C17_ImportAtomic ==
  /\ \A q \in questions : \E p \in passages : p.id = q.passage_id
  /\ ~inTxn =>
       \A p \in passages :
         /\ QuestionsOf(p) # {}
         /\ \A i \in DOMAIN log :
              (log[i].op = "import" /\ log[i].status = 200) =>
                Cardinality(QuestionsOf(p))
                  = Len(Questions(Split(log[i].content)[3]))

\* C18: when the passage insert of a reading import fails, the request
\* answers 500 and writes no question row, and its ROLLBACK leaves the
\* tables as they were when the import began.
C18_PassageFailureRollsBack ==
  [][\A s \in Slots :
       reqs[s].kind = "import" =>
         /\ (reqs[s].pc = "passage" /\ passages' = passages) =>
              /\ Answered /\ log'[Len(log')].status = 500
              /\ reqs'[s].pc = "rollback"
              /\ questions' = questions
         /\ reqs[s].pc = "rollback" =>
              /\ reqs'[s].pc = "idle" /\ log' = log
              /\ ~inTxn'
              /\ Tables' = txnBase[1]
              /\ passages' = passages /\ questions' = questions]_vars

\* an import was answered 500 and rolled back, and no row is stored
C18_Witness ==
  /\ InFlight = {} /\ ~inTxn
  /\ Len(log) = 1 /\ log[1].op = "import" /\ log[1].status = 500
  /\ passages = {} /\ questions = {}

\* C19: a reading import goes on to the store only when its answers are
\* numbered exactly 1..N for its N questions, one answer for each; a text
\* with another number of answers or without an answer for one of 1..N is
\* answered 400 and nothing of it is stored.
C19_AnswersMatchQuestions ==
  [][/\ \A s \in Slots :
          Accepted(s) =>
            LET parts == Split(reqs'[s].arg.content)
                N == Len(Questions(parts[3]))
                matches == AnswerMatches(parts[4])
            IN /\ Len(matches) = N
               /\ \A i \in 1..N :
                    \E k \in DOMAIN matches :
                      matches[k].questionNum = QuestionNum(i)
     /\ Refused => (Tables' = Tables /\ InFlight' = {} /\ ~inTxn')]_vars

\* the headings of a text, in the order they stand in it
HeadingsOf(content) ==
  LET toks == SelectSeq(content, LAMBDA tok : tok.marker # "")
  IN [i \in DOMAIN toks |-> toks[i].marker]

\* the text that follows the first heading of this name
SectionAfter(content, name) ==
  LET i == CHOOSE i \in DOMAIN content :
             /\ content[i].marker = name
             /\ \A j \in 1..(i - 1) : content[j].marker # name
  IN IF i < Len(content) /\ content[i + 1].marker = ""
       THEN content[i + 1] ELSE NoText

\* C20: a reading import goes on to the store only when its text has the
\* headings 阅读文本, 选择题, 答案 in this order, and then the passage, the
\* questions and the answers it stores are the texts under these headings;
\* any other text is answered 400 and nothing of it is stored.
C20_MarkersInOrder ==
  [][/\ \A s \in Slots :
          Accepted(s) =>
            LET content == reqs'[s].arg.content
                names == HeadingsOf(content)
            IN /\ \E i, j, k \in DOMAIN names :
                    /\ i < j /\ j < k
                    /\ names[i] = "passage"
                    /\ names[j] = "questions"
                    /\ names[k] = "answers"
               /\ reqs'[s].arg.title = Title(SectionAfter(content, "passage"))
               /\ reqs'[s].arg.questions
                    = Questions(SectionAfter(content, "questions"))
               /\ reqs'[s].arg.answers
                    = Answers(AnswerMatches(SectionAfter(content, "answers")))
     /\ Refused => (Tables' = Tables /\ InFlight' = {} /\ ~inTxn')]_vars

\* C21: a reading import answered with success has stored one passage, and
\* the question count of the answer is the number of question rows stored
\* for that passage; when the answer is sent every question insert of the
\* request has completed and the transaction is committed.
C21_ResponseAfterInserts ==
  [][\A s \in Slots :
       ( /\ reqs[s].kind = "import"
         /\ Answered /\ log'[Len(log')].status = 200 )
       => /\ reqs[s].row.pending = {}
          /\ reqs'[s].pc = "idle"
          /\ ~inTxn'
          /\ \E p \in passages' :
               /\ p.id = reqs[s].row.passageId
               /\ passages' = txnBase[1].passages \cup {p}
               /\ log'[Len(log')].word = Cardinality(QuestionsOf(p)')]_vars

----------------------------------------------------------------------------
(* The submission of answers *)

\* C22: a submission answered with success carries an integer score in
\* 0..100, the integer nearest to 100 * correct / total with a half going
\* up, where total counts the questions of the passage and correct those
\* whose submitted letter is the stored correct_answer without regard to
\* case; and it appends exactly one test result of type
\* reading-comprehension with score, total, correct and total - correct.
C22_SubmitScore ==
  [][(Answered /\ log'[Len(log')].op = "submit"
        /\ log'[Len(log')].status = 200)
       => LET e == log'[Len(log')]
              asked == {q \in questions : q.passage_id = e.word}
              total == Cardinality(asked)
              right == {q \in asked :
                          /\ q.id \in DOMAIN e.answers
                          /\ \/ e.answers[q.id] = q.correct_answer
                             \/ <<e.answers[q.id], q.correct_answer>>
                                  \in {<<"a", "A">>, <<"b", "B">>, <<"c", "C">>}}
              correct == Cardinality(right)
          IN /\ e.totalQuestions = total
             /\ e.correctCount = correct
             /\ ~e.score.nan
             /\ e.score.value \in 0..100
             /\ 2 * total * e.score.value <= 200 * correct + total
             /\ 200 * correct + total < 2 * total * (e.score.value + 1)
             /\ \E r \in testResults' :
                  /\ r \notin testResults
                  /\ testResults' = testResults \cup {r}
                  /\ r.type = "reading-comprehension"
                  /\ r.score = e.score.value
                  /\ r.total_words = total
                  /\ r.correct_count = correct
                  /\ r.incorrect_count = total - correct]_vars

----------------------------------------------------------------------------
(* The count policy of server.js *)

\* the mistake_count the count policy gives a word after these answers: a
\* wrong answer adds 1, a correct answer takes 1 from a count above 0
RECURSIVE CountAfter(_)
CountAfter(answers) ==
  IF answers = << >> THEN 0
  ELSE LET before == CountAfter(SubSeq(answers, 1, Len(answers) - 1))
       IN IF answers[Len(answers)] = "wrong" THEN before + 1
          ELSE IF before > 0 THEN before - 1 ELSE 0

\* C23: under the count policy, with answers applied one at a time, a
\* correct answer lowers the mistake_count of a flagged word by 1 and the
\* row is deleted when the result is 0 or less; so a word flagged by k
\* wrong answers has a row until exactly k correct answers have followed.
C23_CountPolicy ==
  (impl = "server" /\ InFlight = {} /\ OnlyAnswers(log)) =>
    \A w \in WordIdInputs \ {0} :
      IF CountAfter(AnswersOf(log, w)) = 0
        THEN MistakesOf(w) = {}
        ELSE \E m \in mistakes :
               /\ MistakesOf(w) = {m}
               /\ m.mistake_count = CountAfter(AnswersOf(log, w))

\* two wrong answers and two correct answers for word 1: the row is gone,
\* and it was still there, with count 1, after the first correct answer
C23_Witness ==
  /\ impl = "server" /\ InFlight = {}
  /\ AnswersOf(log, 1) = <<"wrong", "wrong", "correct", "correct">>
  /\ \A i \in DOMAIN log : log[i].status \in {200, 201}
  /\ MistakesOf(1) = {}

----------------------------------------------------------------------------
(* Storage errors of update-stats *)

\* the update-stats requests for a word that were answered with this status
StatsAnswered(w, status) ==
  {i \in DOMAIN log :
     log[i].op = "stats" /\ log[i].word = w /\ log[i].status = status}

\* C24: an update-stats request answered with a storage error leaves the
\* word's exposure and familiarity as they were, also with other
\* update-stats requests interleaved: once every request has finished, a
\* word's counters have risen by no more than the number of requests
\* answered with success.
C24_FailedStatsLeaveNoTrace ==
  (impl = "part_000" /\ InFlight = {}) =>
    \A w \in words :
      /\ w.exposure <= Cardinality(StatsAnswered(w.id, 200))
      /\ w.familiarity <= Cardinality(StatsAnswered(w.id, 200))

----------------------------------------------------------------------------
(* Every batch create is answered *)

\* C25: every batch create whose body is an array is answered in the end,
\* exactly once, and the transaction it opened is closed by then: the
\* request is over, one response is sent and no transaction is open.
C25_BatchAnswered ==
  \A s \in Slots :
    (reqs[s].kind = "batch") ~>
      (reqs[s].pc = "idle" /\ Len(log) = 1 /\ ~inTxn)

----------------------------------------------------------------------------
(* Races of the mistake tracker *)

\* C26: the tracker's read, decide, write is not guarded.  A wrong answer
\* that read a row is acknowledged with success also when the row is gone
\* by the time of its write, and then stores nothing; a correct answer that
\* read streak 1 removes the row also when a wrong answer has reset the
\* streak since.  So a wrong answer and a promoting correct answer for one
\* word, interleaved between read and write, end with the wrong answer
\* acknowledged and no row for the word.
C26_UnguardedCheckThenAct ==
  [][\A s \in Slots :
       (impl = "part_000" /\ reqs[s].pc = "run" /\ reqs'[s].pc = "idle") =>
         /\ (reqs[s].kind = "wrong" /\ reqs[s].row # NoRow) =>
              /\ log' = Append(log, [op |-> "wrong", word |-> reqs[s].arg,
                                     status |-> 200])
              /\ (\A m \in mistakes : m.id # reqs[s].row.id) =>
                   mistakes' = mistakes
         /\ (reqs[s].kind = "correct"
               /\ reqs[s].row.correct_streak + 1 = PromotionThreshold) =>
              /\ log' = Append(log, [op |-> "correct", word |-> reqs[s].arg,
                                     status |-> 200])
              /\ \A m \in mistakes' : m.id # reqs[s].row.id]_vars

\* word 1 was flagged and had streak 1; then a wrong and a correct answer
\* for it were both answered with success, and the word has no row: with
\* one request at a time it would have one
C26_Witness ==
  /\ impl = "part_000" /\ InFlight = {}
  /\ Len(log) = 4
  /\ \A i \in DOMAIN log : log[i].word = 1 /\ log[i].status = 200
  /\ AnswersOf(log, 1) \in {<<"wrong", "correct", "wrong", "correct">>,
                            <<"wrong", "correct", "correct", "wrong">>}
  /\ MistakesOf(1) = {}

\* the entries of these answers that are this one
Count(answers, answer) ==
  Cardinality({i \in DOMAIN answers : answers[i] = answer})

\* C27: under the streak policy every wrong answer for a flagged word
\* counts, however the requests interleave: when the one row ever stored
\* is that of word 1, no answer was refused and at most one correct answer
\* was given, so that no promotion took place, then once every request has
\* finished the row's mistake_count is the number of wrong answers, and its
\* correct_streak is 0 when the last answer written was a wrong one.
C27_EveryWrongAnswerCounts ==
  ( /\ impl = "part_000" /\ InFlight = {}
    /\ nextMistakeId = 2
    /\ \A i \in DOMAIN log : log[i].word = 1 /\ log[i].status = 200
    /\ OnlyAnswers(log)
    /\ Count(AnswersOf(log, 1), "correct") <= 1 )
  => \E m \in mistakes :
       /\ mistakes = {m}
       /\ m.word_id = 1
       /\ m.mistake_count = Count(AnswersOf(log, 1), "wrong")
       /\ AnswersOf(log, 1)[Len(log)] = "wrong" => m.correct_streak = 0

\* word 1 was flagged, brought to streak 1 and then answered wrongly
\* twice: one row, count 3, streak 0
C27_Witness ==
  /\ impl = "part_000" /\ InFlight = {}
  /\ nextMistakeId = 2
  /\ \A i \in DOMAIN log : log[i].word = 1 /\ log[i].status = 200
  /\ AnswersOf(log, 1) = <<"wrong", "correct", "wrong", "wrong">>
  /\ mistakes = {[id |-> 1, word_id |-> 1, mistake_count |-> 3,
                  correct_streak |-> 0]}

----------------------------------------------------------------------------
(* Familiarity and exposure *)

\* C28: in part_000, with update-stats requests that meet no storage
\* error, every word has familiarity <= exposure in every state, new words
\* starting with both at 0; so every answer of the stats endpoint counts
\* no more familiar words than tested words.
C28_FamiliarityWithinExposure ==
  impl = "part_000" =>
    /\ \A w \in words : w.familiarity <= w.exposure
    /\ \A w \in words : w.id >= 3 /\ w.exposure = 0 => w.familiarity = 0
    /\ \A i \in DOMAIN log :
         (log[i].op = "get" /\ log[i].route = "stats") =>
           log[i].body.familiar_words_count <= log[i].body.tested_words_count

\* the stats endpoint has answered with one familiar word among the tested
\* ones
C28_Witness ==
  /\ impl = "part_000"
  /\ \E i \in DOMAIN log :
       /\ log[i].op = "get" /\ log[i].path = "stats"
       /\ log[i].body.familiar_words_count = 1
       /\ log[i].body.tested_words_count = 1
  /\ \E w \in words : w.familiarity = FamiliarThreshold /\ w.exposure = 3

\* C29: when one batch holds two valid items whose english is equal but for
\* case, and no stored word matches them, then once both are processed
\* exactly one of them is inserted, the earlier one, and the later one is on
\* the duplicate list: its existence check saw the insert of the earlier.
C29_LaterItemIsDuplicate ==
  \A s \in Slots :
    (reqs[s].kind = "batch" /\ reqs[s].pc = "commit") =>
      LET items == reqs[s].arg
          results == reqs[s].row.results
      IN (/\ Len(items) = 2
          /\ \A i \in DOMAIN items : ~items[i].null /\ ~InvalidItem(items[i])
          /\ Lower(items[1].english) = Lower(items[2].english)
          /\ \A w \in txnBase[1].words :
               Lower(w.english) # Lower(items[1].english))
         => /\ Len(results.success) = 1
            /\ results.success[1].english = items[1].english
            /\ results.duplicate = <<[index |-> 1]>>
            /\ results.error = << >>
            /\ Cardinality({w \in words :
                 Lower(w.english) = Lower(items[1].english)}) = 1

\* C30: in server.js a GET /api/words/stats request is answered by the
\* statistics handler with the totals over the stored words, and a GET
\* /api/words/count request by the count handler with the number of words;
\* neither is taken by the GET /api/words/:id handler.
C30_StatsAndCountRoutes ==
  impl = "server" =>
    \A i \in DOMAIN log :
      log[i].op = "get" =>
        /\ log[i].path = "stats" =>
             /\ log[i].route = "stats"
             /\ log[i].status = 200
             /\ "total" \in DOMAIN log[i].body
        /\ log[i].path = "count" =>
             /\ log[i].route = "count"
             /\ log[i].status = 200
             /\ "total" \in DOMAIN log[i].body

====
